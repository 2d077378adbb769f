----------------------------- MODULE ToolsProofs -----------------------------
(***************************************************************************)
(* Theorems about the tools around the screening: each has a specification *)
(* and an inductive invariant of its own, and the modules share no state.  *)
(* A section per module, in the order of EXTENDS.                          *)
(***************************************************************************)
EXTENDS Cleanup, Carrier, AccountlessRun, WorkerPool, VerifierReplay, AttemptEvidence, FrontEnds, Recovery,
        CacheCycle, CacheStudy, FiniteLemmas, FiniteSetTheorems, SequenceTheorems, TLAPS

(***************************************************************************)
(* Cleanup.                                                                *)
(***************************************************************************)

ClnRows == [id : Nat, content : Nat]

ClnTypeOK ==
    /\ clnKind \in {"runtime", "vendor"}
    /\ entry \in [ClnEntries -> ClnRows] /\ extra \in BOOLEAN
    /\ clnPlan \in [ClnEntries -> ClnRows] /\ gone \in [ClnEntries -> ClnRows]
    /\ looked \subseteq ClnEntries /\ stated \subseteq ClnEntries /\ changed \subseteq ClnEntries
    /\ clnAt \in {"idle", "planned", "looking", "deleting", "removed", "refused"}
    /\ early \in BOOLEAN /\ masked \in BOOLEAN /\ clnChanges \in Nat

\* An entry that is no longer what the plan says never becomes it again: a
\* removed name comes back with another identity, and a content does not
\* come back under the same one.
ClnLater(e) ==
    \/ entry[e].id = 0
    \/ entry[e].id > clnPlan[e].id
    \/ entry[e].id = clnPlan[e].id /\ entry[e].content > clnPlan[e].content

ClnOnlyLater ==
    /\ \A e \in ClnEntries :
          /\ entry[e].id < 2 + clnChanges /\ entry[e].content <= 2
          /\ entry[e].id = 0 => entry[e] = Absent
    /\ clnAt \in {"planned", "looking", "deleting"} =>
          \A e \in ClnEntries : clnPlan[e].id \in 1 .. (1 + clnChanges) /\ (entry[e] = clnPlan[e] \/ ClnLater(e) \/ gone[e] # Absent)

\* What changed after the plan is still to be found when the execution looks,
\* unless it was replaced between the two reads of its look.
ClnEarlySeen ==
    /\ clnAt \in {"idle", "planned", "looking"} => \A e \in ClnEntries : gone[e] = Absent
    /\ clnAt = "idle" => ~early
    /\ clnAt = "planned" /\ early => extra \/ \E e \in ClnEntries : ClnLater(e)
    /\ clnAt \in {"idle", "planned"} => looked = {} /\ stated = {}
    /\ clnAt = "looking" /\ early /\ ~masked => \E e \in ClnEntries \ looked : ClnLater(e)
    /\ clnAt = "looking" /\ ~masked => \A e \in stated : entry[e].id = clnPlan[e].id
    /\ clnAt = "deleting" /\ ~masked => ~early
    /\ clnAt = "deleting" => looked = ClnEntries

\* What was compared and not changed since has the planned identity.
ClnCompared ==
    clnAt \in {"looking", "deleting"} =>
        \A e \in looked \cup stated : gone[e] = Absent /\ e \notin changed => entry[e].id = clnPlan[e].id

ClnInv == ClnTypeOK /\ ClnOnlyLater /\ ClnEarlySeen /\ ClnCompared /\ ClnAllOrNothing

LEMMA ClnLaterDiffers ==
    ASSUME ClnInv, NEW e \in ClnEntries, clnPlan[e].id # 0, ClnLater(e)
    PROVE  entry[e] # clnPlan[e]
<1>1. entry[e] \in ClnRows /\ clnPlan[e] \in ClnRows
  BY DEF ClnInv, ClnTypeOK
<1> QED
  BY <1>1 DEF ClnLater, ClnRows

\* What another process can do to an entry in one step.
LEMMA ClnDisturbedEntries ==
    ASSUME ClnInv, ClnDisturb
    PROVE  /\ entry' \in [ClnEntries -> ClnRows] /\ extra' \in BOOLEAN /\ (extra => extra')
           /\ \A e \in ClnEntries : \/ entry'[e] = entry[e]
                                    \/ entry'[e] = Absent
                                    \/ entry'[e] = [id |-> 2 + clnChanges, content |-> 1]
                                    \/ entry[e] # Absent /\ entry'[e] = [entry[e] EXCEPT !.content = 2]
<1> DEFINE New == [id |-> 2 + clnChanges, content |-> 1]
<1>1. ClnFiles \subseteq ClnEntries
  BY DEF ClnEntries
<1>2. /\ entry \in [ClnEntries -> ClnRows] /\ extra \in BOOLEAN
      /\ New \in ClnRows /\ Absent \in ClnRows
  BY DEF ClnInv, ClnTypeOK, ClnRows, Absent
<1> HIDE DEF New
<1>3. CASE \E f \in ClnFiles : entry[f] # Absent /\ entry' = [entry EXCEPT ![f] = [@ EXCEPT !.content = 2]] /\ UNCHANGED extra
  <2>1. PICK f \in ClnFiles : entry[f] # Absent /\ entry' = [entry EXCEPT ![f] = [@ EXCEPT !.content = 2]]
    BY <1>3
  <2> DEFINE row == [entry[f] EXCEPT !.content = 2]
  <2>2. entry' = [entry EXCEPT ![f] = row]
    BY <2>1
  <2>3. row \in ClnRows
    BY <1>1, <1>2, <2>1 DEF ClnRows
  <2> HIDE DEF row
  <2>4. entry' \in [ClnEntries -> ClnRows] /\ \A e \in ClnEntries : entry'[e] = entry[e] \/ (e = f /\ entry'[e] = row)
    BY <1>1, <1>2, <2>1, <2>2, <2>3
  <2> QED
    BY <1>2, <1>3, <2>1, <2>4 DEF row
<1>4. CASE \E f \in ClnFiles, row \in {Absent, New} : entry' = [entry EXCEPT ![f] = row] /\ UNCHANGED extra
  <2>1. PICK f \in ClnFiles, row \in {Absent, New} : entry' = [entry EXCEPT ![f] = row] /\ UNCHANGED extra
    BY <1>4
  <2> QED
    BY <1>1, <1>2, <2>1 DEF New
<1>5. CASE DirectoryReplaced
  <2>1. PICK new \in {Absent, New}, left \in {{}, ClnFiles} :
           entry' = [e \in ClnEntries |-> IF e = ClnDirectory THEN new ELSE IF e \in left THEN entry[e] ELSE Absent]
    BY <1>5 DEF DirectoryReplaced, New
  <2> QED
    BY <1>2, <1>5, <2>1 DEF DirectoryReplaced, New
<1>6. CASE NameAdded
  BY <1>2, <1>6 DEF NameAdded
<1>7. FileDisturbed => \/ \E f \in ClnFiles : entry[f] # Absent /\ entry' = [entry EXCEPT ![f] = [@ EXCEPT !.content = 2]] /\ UNCHANGED extra
                       \/ \E f \in ClnFiles, row \in {Absent, New} : entry' = [entry EXCEPT ![f] = row] /\ UNCHANGED extra
  BY DEF FileDisturbed, New
<1> QED
  BY <1>3, <1>4, <1>5, <1>6, <1>7 DEF ClnDisturb

\* Another process changes one file or the directory, or adds a name.
LEMMA ClnDisturbKeeps ==
    ASSUME ClnInv, ClnDisturb
    PROVE  ClnInv'
<1>1. ClnEntries' = ClnEntries
  BY DEF ClnDisturb, ClnEntries
<1>2. /\ UNCHANGED <<clnKind, clnPlan, looked, stated, gone, clnAt>> /\ clnChanges' = clnChanges + 1
      /\ clnAt \notin {"removed", "refused"} /\ clnChanges \in Nat
      /\ early' = (early \/ (clnAt = "planned" /\ (entry' # entry \/ extra' # extra)))
      /\ changed' = changed \cup {e \in ClnEntries : gone[e] = Absent /\ entry'[e] # entry[e]}
      /\ masked' = (masked \/ (clnAt = "looking" /\ \E e \in stated : entry'[e] # entry[e]))
  BY DEF ClnDisturb, ClnInv, ClnTypeOK
<1>3. /\ entry' \in [ClnEntries -> ClnRows] /\ extra' \in BOOLEAN /\ (extra => extra')
      /\ \A e \in ClnEntries : \/ entry'[e] = entry[e]
                               \/ entry'[e] = Absent
                               \/ entry'[e] = [id |-> 2 + clnChanges, content |-> 1]
                               \/ entry[e] # Absent /\ entry'[e] = [entry[e] EXCEPT !.content = 2]
  BY ClnDisturbedEntries
<1>4. \A e \in ClnEntries : /\ entry[e] \in ClnRows /\ entry'[e] \in ClnRows /\ clnPlan[e] \in ClnRows
                            /\ entry[e].id < 2 + clnChanges /\ entry[e].content <= 2
                            /\ entry[e].id = 0 => entry[e] = Absent
  BY <1>3 DEF ClnInv, ClnTypeOK, ClnOnlyLater
<1>5. \A e \in ClnEntries : /\ entry'[e].id < 2 + clnChanges' /\ entry'[e].content <= 2
                            /\ entry'[e].id = 0 => entry'[e] = Absent
  BY <1>2, <1>3, <1>4 DEF ClnRows, Absent
<1>6. ASSUME clnAt \in {"planned", "looking", "deleting"}, NEW e \in ClnEntries
      PROVE  /\ clnPlan[e].id \in 1 .. (1 + clnChanges)
             /\ ClnLater(e) => ClnLater(e)'
             /\ entry[e] = clnPlan[e] => entry'[e] = entry[e] \/ ClnLater(e)'
  <2>1. clnPlan[e].id \in 1 .. (1 + clnChanges)
    BY <1>6 DEF ClnInv, ClnOnlyLater
  <2>2. clnPlan'[e] = clnPlan[e]
    BY <1>2
  <2>3. CASE entry'[e] = entry[e]
    BY <2>1, <2>2, <2>3 DEF ClnLater
  <2>4. CASE entry'[e] = Absent
    BY <2>1, <2>4 DEF ClnLater, Absent
  <2>5. CASE entry'[e] = [id |-> 2 + clnChanges, content |-> 1]
    BY <1>2, <2>1, <2>2, <2>5 DEF ClnLater
  <2>6. CASE entry[e] # Absent /\ entry'[e] = [entry[e] EXCEPT !.content = 2]
    <3>1. entry'[e].id = entry[e].id /\ entry'[e].content = 2
      BY <1>4, <2>6 DEF ClnRows
    <3>2. CASE entry[e].content = 2
      <4>1. entry'[e] = entry[e]
        BY <1>4, <3>1, <3>2 DEF ClnRows
      <4> QED
        BY <2>1, <2>3, <4>1
    <3>3. CASE entry[e].content # 2
      BY <1>4, <2>1, <2>2, <3>1, <3>3 DEF ClnLater, ClnRows
    <3> QED
      BY <3>2, <3>3
  <2> QED
    BY <1>3, <2>3, <2>4, <2>5, <2>6
<1>7. ClnTypeOK'
  BY <1>1, <1>2, <1>3 DEF ClnInv, ClnTypeOK
<1>8. ClnOnlyLater'
  <2>1. ASSUME clnAt \in {"planned", "looking", "deleting"}, NEW e \in ClnEntries
        PROVE  clnPlan'[e].id \in 1 .. (1 + clnChanges') /\ (entry'[e] = clnPlan'[e] \/ ClnLater(e)' \/ gone'[e] # Absent)
    <3>1. clnPlan'[e].id \in 1 .. (1 + clnChanges')
      BY <1>2, <1>6, <2>1
    <3>2. entry[e] = clnPlan[e] \/ ClnLater(e) \/ gone[e] # Absent
      BY <2>1 DEF ClnInv, ClnOnlyLater
    <3> QED
      BY <1>2, <1>6, <2>1, <3>1, <3>2
  <2> QED
    BY <1>1, <1>2, <1>5, <2>1 DEF ClnOnlyLater
<1>9. ClnEarlySeen'
  <2>1. ASSUME clnAt = "planned", early' PROVE extra' \/ \E e \in ClnEntries : ClnLater(e)'
    <3>1. CASE early
      <4>1. extra \/ \E e \in ClnEntries : ClnLater(e)
        BY <2>1, <3>1 DEF ClnInv, ClnEarlySeen
      <4> QED
        BY <1>3, <1>6, <2>1, <4>1
    <3>2. CASE ~early
      <4>1. entry' # entry \/ extra' # extra
        BY <1>2, <2>1, <3>2
      <4>2. CASE extra' # extra
        BY <1>3, <4>2 DEF ClnInv, ClnTypeOK
      <4>3. CASE entry' # entry
        <5>1. PICK e \in ClnEntries : entry'[e] # entry[e]
          BY <1>3, <4>3 DEF ClnInv, ClnTypeOK
        <5>2. entry[e] = clnPlan[e] \/ ClnLater(e)
          BY <2>1 DEF ClnInv, ClnOnlyLater, ClnEarlySeen
        <5>3. ClnLater(e)'
          BY <1>6, <2>1, <5>1, <5>2
        <5> QED
          BY <5>3
      <4> QED
        BY <4>1, <4>2, <4>3
    <3> QED
      BY <3>1, <3>2
  <2>2. ASSUME clnAt = "looking", early, ~masked PROVE \E e \in ClnEntries \ looked : ClnLater(e)'
    <3>1. PICK e \in ClnEntries \ looked : ClnLater(e)
      BY <2>2 DEF ClnInv, ClnEarlySeen
    <3>2. ClnLater(e)'
      BY <1>6, <2>2, <3>1
    <3> QED
      BY <3>2
  <2>3. ASSUME clnAt = "looking", ~masked' PROVE ~masked /\ \A e \in stated : entry'[e].id = clnPlan[e].id
    <3>1. \A e \in stated : entry[e].id = clnPlan[e].id
      BY <1>2, <2>3 DEF ClnInv, ClnEarlySeen
    <3> QED
      BY <1>2, <2>3, <3>1
  <2>4. (early' => early \/ clnAt = "planned") /\ (~masked' => ~masked)
    BY <1>2
  <2> QED
    BY <1>1, <1>2, <2>1, <2>2, <2>3, <2>4 DEF ClnInv, ClnEarlySeen
<1>10. ClnCompared'
  <2>1. ASSUME clnAt \in {"looking", "deleting"}, NEW e \in looked \cup stated, gone[e] = Absent, e \notin changed'
        PROVE  entry'[e].id = clnPlan[e].id
    <3>1. e \in ClnEntries
      BY DEF ClnInv, ClnTypeOK
    <3>2. entry'[e] = entry[e] /\ e \notin changed
      BY <1>2, <2>1, <3>1
    <3> QED
      BY <2>1, <3>2 DEF ClnInv, ClnCompared
  <2> QED
    BY <1>2, <2>1 DEF ClnCompared
<1>11. ClnAllOrNothing'
  <2>1. early' /\ ~masked' => \A e \in ClnEntries : gone[e] = Absent
    <3>1. CASE early
      BY <1>2, <3>1 DEF ClnInv, ClnAllOrNothing
    <3>2. CASE ~early
      BY <1>2, <3>2 DEF ClnInv, ClnEarlySeen
    <3> QED
      BY <3>1, <3>2
  <2>2. \A e \in ClnEntries : gone[e] # Absent => gone[e].id = clnPlan[e].id \/ e \in changed'
    BY <1>2 DEF ClnInv, ClnAllOrNothing
  <2> QED
    BY <1>1, <1>2, <2>1, <2>2 DEF ClnAllOrNothing
<1> QED
  BY <1>7, <1>8, <1>9, <1>10, <1>11 DEF ClnInv

LEMMA ClnSame ==
    ASSUME UNCHANGED <<clnKind, entry, clnPlan>>
    PROVE  ClnEntries' = ClnEntries /\ \A e : ClnLater(e)' <=> ClnLater(e)
BY DEF ClnEntries, ClnLater

LEMMA ClnMakePlanKeeps ==
    ASSUME ClnInv, ClnMakePlan
    PROVE  ClnInv'
<1>1. UNCHANGED <<clnKind, entry, extra, looked, stated, gone, early, masked, changed, clnChanges>> /\ ClnEntries' = ClnEntries
      /\ clnAt = "idle"
  BY DEF ClnMakePlan, ClnEntries, clnHistory
<1>2. CASE TreeAsAllowed
  <2>1. clnAt' = "planned" /\ clnPlan' = entry
    BY <1>2 DEF ClnMakePlan
  <2>2. \A e \in ClnEntries : entry[e].id \in 1 .. (1 + clnChanges)
    <3> TAKE e \in ClnEntries
    <3>1. entry[e] \in ClnRows /\ entry[e] # Absent /\ clnChanges \in Nat /\ entry[e].id < 2 + clnChanges
      BY <1>2 DEF ClnInv, ClnTypeOK, ClnOnlyLater, TreeAsAllowed
    <3>2. entry[e].id # 0
      BY <3>1 DEF ClnInv, ClnOnlyLater
    <3> QED
      BY <3>1, <3>2 DEF ClnRows
  <2> QED
    BY <1>1, <2>1, <2>2 DEF ClnInv, ClnTypeOK, ClnOnlyLater, ClnEarlySeen, ClnCompared, ClnAllOrNothing
<1>3. CASE ~TreeAsAllowed
  BY <1>1, <1>3, ClnSame DEF ClnMakePlan, ClnInv, ClnTypeOK, ClnOnlyLater, ClnEarlySeen, ClnCompared, ClnAllOrNothing
<1> QED
  BY <1>2, <1>3

LEMMA ClnExecuteKeeps ==
    ASSUME ClnInv, ClnExecute
    PROVE  ClnInv'
<1>1. /\ UNCHANGED <<clnKind, entry, extra, clnPlan, looked, stated, gone, early, masked, changed, clnChanges>>
      /\ ClnEntries' = ClnEntries /\ clnAt = "planned" /\ clnAt' \in {"looking", "refused"}
      /\ clnAt' = "looking" => ~extra
      /\ \A e : ClnLater(e)' <=> ClnLater(e)
  BY ClnSame DEF ClnExecute, TreeAsAllowed, clnHistory
<1> QED
  BY <1>1 DEF ClnInv, ClnTypeOK, ClnOnlyLater, ClnEarlySeen, ClnCompared, ClnAllOrNothing

\* What passed is as planned: the entry that changed early is another one.
LEMMA ClnPassed ==
    ASSUME ClnInv, NEW e \in ClnEntries, clnAt = "looking", SameContent(e), SameIdentity(e)
    PROVE  /\ entry[e] = clnPlan[e]
           /\ early /\ ~masked => \E x \in ClnEntries \ (looked \cup {e}) : ClnLater(x)
<1>1. entry[e] \in ClnRows /\ clnPlan[e] \in ClnRows /\ clnPlan[e].id # 0
  BY DEF ClnInv, ClnTypeOK, ClnOnlyLater
<1>2. entry[e] = clnPlan[e]
  BY <1>1 DEF SameContent, SameIdentity, ClnRows
<1>3. ~ClnLater(e)
  BY <1>1, <1>2, ClnLaterDiffers
<1> QED
  BY <1>2, <1>3 DEF ClnInv, ClnEarlySeen

\* The entry that changed early is looked at before the first is deleted.
LEMMA ClnLookKeeps ==
    ASSUME ClnInv, NEW e \in ClnEntries, ClnLook(e)
    PROVE  ClnInv'
<1>1. /\ UNCHANGED <<clnKind, entry, extra, clnPlan, stated, gone, early, masked, clnChanges>>
      /\ ClnEntries' = ClnEntries /\ clnAt = "looking" /\ stated = {}
      /\ \A x : ClnLater(x)' <=> ClnLater(x)
  BY ClnSame DEF ClnLook
<1>2. CASE SameIdentity(e) /\ SameContent(e)
  <2>1. /\ looked' = looked \cup {e} /\ changed' = changed \ {e}
        /\ clnAt' = IF looked' = ClnEntries THEN "deleting" ELSE "looking"
    BY <1>1, <1>2 DEF ClnLook, LookedAt
  <2>2. entry[e] = clnPlan[e] /\ (early /\ ~masked => \E x \in ClnEntries \ looked' : ClnLater(x))
    BY <1>1, <1>2, <2>1, ClnPassed
  <2>3. ClnEarlySeen'
    BY <1>1, <2>1, <2>2 DEF ClnInv, ClnEarlySeen
  <2>4. ClnCompared'
    BY <1>1, <2>1, <2>2 DEF ClnInv, ClnCompared
  <2>5. ClnTypeOK' /\ ClnOnlyLater'
    BY <1>1, <2>1 DEF ClnInv, ClnTypeOK, ClnOnlyLater
  <2>6. ClnAllOrNothing'
    BY <1>1, <2>1 DEF ClnInv, ClnEarlySeen, ClnAllOrNothing
  <2> QED
    BY <2>3, <2>4, <2>5, <2>6 DEF ClnInv
<1>3. CASE ~(SameIdentity(e) /\ SameContent(e))
  <2>1. clnAt' = "refused" /\ UNCHANGED <<looked, changed>>
    BY <1>3 DEF ClnLook
  <2> QED
    BY <1>1, <2>1 DEF ClnInv, ClnTypeOK, ClnOnlyLater, ClnEarlySeen, ClnCompared, ClnAllOrNothing
<1> QED
  BY <1>2, <1>3

LEMMA ClnCompareKeeps ==
    ASSUME ClnInv, NEW e \in ClnEntries, ClnCompare(e)
    PROVE  ClnInv'
<1>1. /\ UNCHANGED <<clnKind, entry, extra, clnPlan, looked, gone, early, masked, clnChanges>>
      /\ ClnEntries' = ClnEntries /\ clnAt \in {"looking", "deleting"} /\ gone[e] = Absent
      /\ \A x : ClnLater(x)' <=> ClnLater(x)
  BY ClnSame DEF ClnCompare, ClnInv, ClnEarlySeen
<1>2. CASE SameIdentity(e)
  <2>1. stated' = {e} /\ changed' = changed \ {e} /\ UNCHANGED clnAt
    BY <1>2 DEF ClnCompare
  <2>2. ClnEarlySeen' /\ ClnCompared'
    BY <1>1, <1>2, <2>1 DEF ClnInv, ClnEarlySeen, ClnCompared, SameIdentity
  <2>3. ClnTypeOK' /\ ClnOnlyLater'
    BY <1>1, <2>1 DEF ClnInv, ClnTypeOK, ClnOnlyLater
  <2>4. ClnAllOrNothing'
    BY <1>1, <2>1 DEF ClnInv, ClnAllOrNothing
  <2> QED
    BY <2>2, <2>3, <2>4 DEF ClnInv
<1>3. CASE ~SameIdentity(e)
  <2>1. clnAt' = "refused" /\ UNCHANGED <<stated, changed>>
    BY <1>3 DEF ClnCompare
  <2> QED
    BY <1>1, <2>1 DEF ClnInv, ClnTypeOK, ClnOnlyLater, ClnEarlySeen, ClnCompared, ClnAllOrNothing
<1> QED
  BY <1>2, <1>3

LEMMA ClnReadKeeps ==
    ASSUME ClnInv, NEW e \in ClnEntries, ClnRead(e)
    PROVE  ClnInv'
<1>1. /\ UNCHANGED <<clnKind, entry, extra, clnPlan, gone, early, masked, changed, clnChanges>>
      /\ ClnEntries' = ClnEntries /\ clnAt = "looking" /\ e \in stated /\ stated' = {}
      /\ \A x : ClnLater(x)' <=> ClnLater(x)
  BY ClnSame DEF ClnRead, clnHistory
<1>2. CASE SameContent(e)
  <2>1. /\ looked' = looked \cup {e}
        /\ clnAt' = IF looked' = ClnEntries THEN "deleting" ELSE "looking"
    BY <1>1, <1>2 DEF ClnRead, LookedAt
  <2>2. early /\ ~masked => \E x \in ClnEntries \ looked' : ClnLater(x)
    <3> SUFFICES ASSUME ~masked PROVE early => \E x \in ClnEntries \ looked' : ClnLater(x)
      OBVIOUS
    <3>1. SameIdentity(e)
      BY <1>1 DEF ClnInv, ClnEarlySeen, SameIdentity
    <3> QED
      BY <1>1, <1>2, <2>1, <3>1, ClnPassed
  <2>3. ClnEarlySeen'
    BY <1>1, <2>1, <2>2 DEF ClnInv, ClnEarlySeen
  <2>4. ClnCompared'
    BY <1>1, <2>1 DEF ClnInv, ClnCompared
  <2>5. ClnTypeOK' /\ ClnOnlyLater'
    BY <1>1, <2>1 DEF ClnInv, ClnTypeOK, ClnOnlyLater
  <2>6. ClnAllOrNothing'
    BY <1>1, <2>1 DEF ClnInv, ClnEarlySeen, ClnAllOrNothing
  <2> QED
    BY <2>3, <2>4, <2>5, <2>6 DEF ClnInv
<1>3. CASE ~SameContent(e)
  <2>1. clnAt' = "refused" /\ UNCHANGED looked
    BY <1>3 DEF ClnRead
  <2> QED
    BY <1>1, <2>1 DEF ClnInv, ClnTypeOK, ClnOnlyLater, ClnEarlySeen, ClnCompared, ClnAllOrNothing
<1> QED
  BY <1>2, <1>3

LEMMA ClnDeleteKeeps ==
    ASSUME ClnInv, NEW e \in ClnEntries, ClnDelete(e)
    PROVE  ClnInv'
<1>1. /\ UNCHANGED <<clnKind, extra, clnPlan, looked, early, masked, changed, clnChanges>> /\ stated' = {}
      /\ ClnEntries' = ClnEntries /\ clnAt = "deleting" /\ (early => masked) /\ clnChanges \in Nat
      /\ looked = ClnEntries /\ gone[e] = Absent
  BY DEF ClnDelete, ClnEntries, ClnInv, ClnEarlySeen, ClnTypeOK, clnHistory
<1>2. clnPlan[e].id # 0 /\ (entry[e].id = clnPlan[e].id \/ e \in changed)
  BY <1>1 DEF ClnInv, ClnOnlyLater, ClnCompared
<1>3. entry[e] \in ClnRows /\ clnPlan[e] \in ClnRows /\ Absent \in ClnRows /\ Absent.id = 0 /\ Absent.content = 0
  BY DEF ClnInv, ClnTypeOK, ClnRows, Absent
<1>4. CASE DeletionFails
  BY <1>1, <1>4 DEF DeletionFails, ClnInv, ClnTypeOK, ClnOnlyLater, ClnEarlySeen, ClnCompared, ClnAllOrNothing
<1>5. ASSUME NEW row \in ClnRows, row # Absent, row.id = clnPlan[e].id \/ e \in changed,
             gone' = [gone EXCEPT ![e] = row], UNCHANGED clnAt,
             entry' = entry \/ entry' = [entry EXCEPT ![e] = Absent]
      PROVE  ClnInv'
  <2>1. /\ entry' \in [ClnEntries -> ClnRows] /\ gone' \in [ClnEntries -> ClnRows]
        /\ \A x \in ClnEntries : x # e => entry'[x] = entry[x] /\ gone'[x] = gone[x]
        /\ entry'[e] \in {entry[e], Absent} /\ gone'[e] = row
    BY <1>3, <1>5 DEF ClnInv, ClnTypeOK
  <2>2. ClnOnlyLater'
    <3>1. \A x \in ClnEntries : /\ entry'[x].id < 2 + clnChanges /\ entry'[x].content <= 2
                                /\ entry'[x].id = 0 => entry'[x] = Absent
      BY <1>1, <1>3, <2>1 DEF ClnInv, ClnOnlyLater
    <3>2. ASSUME NEW x \in ClnEntries
          PROVE  clnPlan[x].id \in 1 .. (1 + clnChanges) /\ (entry'[x] = clnPlan[x] \/ ClnLater(x)' \/ gone'[x] # Absent)
      <4>1. clnPlan[x].id \in 1 .. (1 + clnChanges) /\ (entry[x] = clnPlan[x] \/ ClnLater(x) \/ gone[x] # Absent)
        BY <1>1 DEF ClnInv, ClnOnlyLater
      <4>2. CASE x = e
        BY <1>5, <2>1, <4>1, <4>2
      <4>3. CASE x # e
        BY <1>1, <2>1, <4>1, <4>3 DEF ClnLater
      <4> QED
        BY <4>2, <4>3
    <3> QED
      BY <1>1, <3>1, <3>2 DEF ClnOnlyLater
  <2>3. ClnCompared'
    BY <1>1, <1>5, <2>1 DEF ClnInv, ClnCompared
  <2>4. ClnAllOrNothing'
    <3>1. \A x \in ClnEntries : gone'[x] # Absent => gone'[x].id = clnPlan[x].id \/ x \in changed
      BY <1>5, <2>1 DEF ClnInv, ClnAllOrNothing
    <3> QED
      BY <1>1, <1>5, <3>1 DEF ClnAllOrNothing
  <2>5. ClnEarlySeen'
    BY <1>1, <1>5 DEF ClnInv, ClnEarlySeen
  <2> QED
    BY <1>1, <1>5, <2>1, <2>2, <2>3, <2>4, <2>5 DEF ClnInv, ClnTypeOK
<1>6. CASE entry[e] # Absent /\ Unlinked(e)
  BY <1>2, <1>3, <1>5, <1>6 DEF Unlinked
<1>7. CASE UnlinkedElsewhere(e)
  <2>1. clnPlan[e] # Absent
    BY <1>2, <1>3
  <2> QED
    BY <1>3, <1>5, <1>7, <2>1 DEF UnlinkedElsewhere
<1> QED
  BY <1>4, <1>6, <1>7 DEF ClnDelete

LEMMA ClnFinishKeeps ==
    ASSUME ClnInv, ClnFinish
    PROVE  ClnInv'
<1>1. /\ UNCHANGED <<clnKind, entry, extra, clnPlan, looked, stated, gone, early, masked, changed, clnChanges>>
      /\ ClnEntries' = ClnEntries /\ clnAt = "deleting" /\ clnAt' \in {"removed", "refused"}
      /\ clnAt' = "removed" => ~extra /\ \A e \in ClnEntries : entry[e] = Absent
  BY DEF ClnFinish, ClnEntries, clnHistory
<1> QED
  BY <1>1 DEF ClnInv, ClnTypeOK, ClnOnlyLater, ClnEarlySeen, ClnCompared, ClnAllOrNothing

\* A cleanup deletes nothing of a tree that changed after its plan, unless a
\* file changes again while it is looked at; it deletes another identity than
\* planned only where another process put it after the last comparison; and it
\* says that it removed the tree only when nothing is left.
THEOREM ClnAlwaysAllOrNothing == ClnSpec => []ClnAllOrNothing
<1>1. ClnInit => ClnInv
  <2> SUFFICES ASSUME ClnInit PROVE ClnInv
    OBVIOUS
  <2>1. \A e \in ClnEntries : entry[e] = [id |-> 1, content |-> 1] /\ gone[e] = Absent /\ clnPlan[e] = Absent
    BY DEF ClnInit
  <2>2. ClnTypeOK
    <3>1. [id |-> 1, content |-> 1] \in ClnRows /\ Absent \in ClnRows
      BY DEF ClnRows, Absent
    <3> QED
      BY <3>1 DEF ClnInit, ClnTypeOK
  <2>3. ClnOnlyLater
    BY <2>1 DEF ClnInit, ClnOnlyLater
  <2>4. ClnEarlySeen /\ ClnCompared /\ ClnAllOrNothing
    BY <2>1 DEF ClnInit, ClnEarlySeen, ClnCompared, ClnAllOrNothing
  <2> QED
    BY <2>2, <2>3, <2>4 DEF ClnInv
<1>2. ClnInv /\ [ClnNext]_clnVars => ClnInv'
  <2> SUFFICES ASSUME ClnInv, [ClnNext]_clnVars PROVE ClnInv'
    OBVIOUS
  <2>1. CASE ClnNext
    BY <2>1, ClnDisturbKeeps, ClnMakePlanKeeps, ClnExecuteKeeps, ClnFinishKeeps, ClnLookKeeps, ClnCompareKeeps,
       ClnReadKeeps, ClnDeleteKeeps
       DEF ClnNext
  <2>2. CASE UNCHANGED clnVars
    BY <2>2, ClnSame DEF ClnInv, ClnTypeOK, ClnOnlyLater, ClnEarlySeen, ClnCompared, ClnAllOrNothing, clnVars, clnHistory
  <2> QED
    BY <2>1, <2>2
<1>3. ClnInv => ClnAllOrNothing
  BY DEF ClnInv
<1> QED
  BY <1>1, <1>2, <1>3, PTL DEF ClnSpec

(***************************************************************************)
(* Carrier.                                                                *)
(***************************************************************************)

CrStates == {"starts", "definition", "attestation", "reads", "receipts", "admission", "writes", "over", "dead"}
CrContexts == {"none", "verified", "missing", "wrong_source", "stale", "invalid", gate.definition}
CrRecords == [ready : BOOLEAN, context : CrContexts, class : {"none", "source", "admission", "error"}]
CrRows == [at : CrStates, observed : Nat, read : [CrInputs -> CrDocument \cup {Undecided}], loaded : 0 .. 4,
           admitted : Nat, record : CrRecords, exit : Int]

CrTypeOK ==
    /\ crNow \in Nat /\ gate.deadline \in Int
    /\ gate.attestation.observed \in Nat /\ gate.attestation.through \in Nat
    /\ inputs \in [CrInputs -> CrDocument]
    /\ processes \in [CrProcesses -> CrRows]

\* The attestation was accepted, and the inputs read so far are those of it.
CrAccepted(p) ==
    /\ gate.definition = "as_fixed" /\ gate.attestation.valid /\ gate.absent = {}
    /\ CrFresh(gate.attestation, processes[p].observed)
CrReadsAttested(p) ==
    \A i \in 1 .. processes[p].loaded :
       /\ processes[p].read[CrOrder[i]] \in CrDocument
       /\ processes[p].read[CrOrder[i]].version = gate.attestation.versions[CrOrder[i]]
CrReceiptsHold(p) == \A i \in 2 .. 4 : ReceiptFault(p, CrOrder[i]) = "none"

\* What a carrier has established when it comes to a point of its run.
CrCarrierSoFar(p) ==
    /\ processes[p].at \in {"starts", "definition", "attestation"} => processes[p].loaded = 0
    /\ processes[p].at = "attestation" => gate.definition = "as_fixed"
    /\ processes[p].at = "reads" => CrAccepted(p) /\ processes[p].loaded < 4
    /\ processes[p].at \in {"receipts", "admission"} => processes[p].loaded = 4
    /\ processes[p].at = "admission" => CrReceiptsHold(p)
    /\ processes[p].loaded > 0 => CrAccepted(p)
    /\ processes[p].at \in {"reads", "receipts", "admission"} => CrReadsAttested(p)
    /\ processes[p].record.ready => processes[p].loaded = 4 /\ CrReadsAttested(p) /\ CrReceiptsHold(p)

CrAdmitted(p) ==
    /\ gate.missing = {} /\ gate.absent = {}
    /\ gate.deadline - processes[p].admitted > CrReserve /\ gate.deadline - processes[p].admitted <= CrWall

\* The result file is the one process's that is at work, or was.
CrFileIsOf(p) ==
    /\ processes[p].at \notin {"starts", "over", "dead"} => output = [by |-> p, state |-> "empty", record |-> Undecided]
    /\ processes[p].at # "over" => processes[p].exit = -1
    /\ processes[p].at \notin {"writes", "over", "dead"} => ~processes[p].record.ready
    /\ processes[p].exit = 0 => output = [by |-> p, state |-> "whole", record |-> processes[p].record]
                                /\ processes[p].record.ready
    /\ processes[p].record.ready => CrAdmitted(p)

CrInv ==
    /\ CrTypeOK
    /\ \A p \in CrProcesses : CrFileIsOf(p)
    /\ \A p \in Carriers : CrCarrierSoFar(p)

LEMMA CrOrderNames ==
    /\ CrOrder[1] = "ledger" /\ CrOrder[2] = "provider" /\ CrOrder[3] = "price" /\ CrOrder[4] = "outbound"
    /\ Len(CrOrder) = 4
    /\ \A i \in 1 .. 4 : CrOrder[i] \in CrInputs
    /\ \A n \in CrInputs : \E i \in 1 .. 4 : CrOrder[i] = n
    /\ \A n \in CrReceipts : \E i \in 2 .. 4 : CrOrder[i] = n
    /\ \A i, j \in 1 .. 4 : CrOrder[i] = CrOrder[j] => i = j
<1>1. CrOrder[1] = "ledger" /\ CrOrder[2] = "provider" /\ CrOrder[3] = "price" /\ CrOrder[4] = "outbound"
      /\ Len(CrOrder) = 4
  BY DEF CrOrder
<1>2. \A i \in 1 .. 4 : i = 1 \/ i = 2 \/ i = 3 \/ i = 4
  OBVIOUS
<1>3. \A i \in 1 .. 4 : CrOrder[i] \in CrInputs
  BY <1>1, <1>2 DEF CrInputs
<1>4. \A n \in CrInputs : \E i \in 1 .. 4 : CrOrder[i] = n
  BY <1>1 DEF CrInputs
<1>5. \A n \in CrReceipts : \E i \in 2 .. 4 : CrOrder[i] = n
  BY <1>1 DEF CrInputs, CrReceipts
<1>6. \A i, j \in 1 .. 4 : CrOrder[i] = CrOrder[j] => i = j
  BY <1>1, <1>2
<1> QED
  BY <1>1, <1>3, <1>4, <1>5, <1>6

\* The invariant has what the property asks.
LEMMA CrInvEarned == CrInv => CrReadyIsEarned
<1> SUFFICES ASSUME CrInv PROVE CrReadyIsEarned
  OBVIOUS
<1>1. ASSUME NEW p \in CrProcesses
      PROVE  /\ processes[p].exit = 0 => output = [by |-> p, state |-> "whole", record |-> processes[p].record]
                                         /\ processes[p].record.ready
             /\ processes[p].at \notin {"starts", "over", "dead"} =>
                   output = [by |-> p, state |-> "empty", record |-> Undecided]
             /\ processes[p].record.ready =>
                  /\ gate.missing = {} /\ gate.absent = {}
                  /\ gate.deadline - processes[p].admitted \in (CrReserve + 1) .. CrWall
  <2>1. CrFileIsOf(p) /\ processes[p] \in CrRows /\ gate.deadline \in Int
    BY <1>1 DEF CrInv, CrTypeOK
  <2>2. processes[p].admitted \in Nat
    BY <2>1 DEF CrRows
  <2>3. CrAdmitted(p) => gate.deadline - processes[p].admitted \in (CrReserve + 1) .. CrWall
    BY <2>1, <2>2, CrAssumption DEF CrAdmitted
  <2> QED
    BY <2>1, <2>3 DEF CrFileIsOf, CrAdmitted
<1>2. ASSUME NEW p \in Carriers
      PROVE  /\ processes[p].loaded > 0 =>
                  gate.definition = "as_fixed" /\ gate.attestation.valid /\ gate.absent = {}
             /\ processes[p].record.ready =>
                  /\ \A n \in CrInputs : processes[p].read[n].version = gate.attestation.versions[n]
                  /\ \A n \in CrReceipts : processes[p].read[n].of = processes[p].read["ledger"].version
                                           /\ processes[p].read[n].valid
                  /\ \A d \in {processes[p].read[n] : n \in CrReceipts} \cup {gate.attestation} :
                        processes[p].observed \in d.observed .. d.through
  <2>1. CrCarrierSoFar(p) /\ processes[p] \in CrRows
    BY <1>2 DEF CrInv, CrTypeOK, CrProcesses
  <2>2. processes[p].loaded > 0 => CrAccepted(p)
    BY <2>1 DEF CrCarrierSoFar
  <2>3. ASSUME processes[p].record.ready
        PROVE  /\ \A n \in CrInputs : processes[p].read[n].version = gate.attestation.versions[n]
               /\ \A n \in CrReceipts : processes[p].read[n].of = processes[p].read["ledger"].version
                                        /\ processes[p].read[n].valid
               /\ \A d \in {processes[p].read[n] : n \in CrReceipts} \cup {gate.attestation} :
                     processes[p].observed \in d.observed .. d.through
    <3>1. processes[p].loaded = 4 /\ CrReceiptsHold(p) /\ CrReadsAttested(p) /\ CrAccepted(p)
      BY <2>1, <2>3 DEF CrCarrierSoFar
    <3>2. processes[p].observed \in Nat
      BY <2>1 DEF CrRows
    <3>3. \A n \in CrInputs : processes[p].read[n] \in CrDocument
                              /\ processes[p].read[n].version = gate.attestation.versions[n]
      BY <3>1, CrOrderNames DEF CrReadsAttested
    <3>4. ASSUME NEW n \in CrReceipts
          PROVE  /\ processes[p].read[n].of = processes[p].read["ledger"].version
                 /\ processes[p].read[n].valid
                 /\ processes[p].observed \in processes[p].read[n].observed .. processes[p].read[n].through
      <4>1. ReceiptFault(p, n) = "none"
        BY <3>1, CrOrderNames DEF CrReceiptsHold
      <4>2. processes[p].read[n] \in CrDocument
        BY <3>3 DEF CrReceipts
      <4>3. /\ CrFresh(processes[p].read[n], processes[p].observed) /\ processes[p].read[n].valid
            /\ processes[p].read[n].of = processes[p].read["ledger"].version
        BY <4>1 DEF ReceiptFault
      <4> QED
        BY <3>2, <4>2, <4>3 DEF CrFresh, CrDocument
    <3>5. processes[p].observed \in gate.attestation.observed .. gate.attestation.through
      BY <3>1, <3>2 DEF CrAccepted, CrFresh, CrInv, CrTypeOK
    <3> QED
      BY <3>3, <3>4, <3>5
  <2> QED
    BY <2>2, <2>3 DEF CrAccepted
<1> QED
  BY <1>1, <1>2 DEF CrReadyIsEarned

\* What holds of one process depends on its own row, the gate and the file.
LEMMA CrOthersKeep ==
    ASSUME CrInv, UNCHANGED gate, NEW q \in CrProcesses, processes'[q] = processes[q]
    PROVE  /\ q \in Carriers => CrCarrierSoFar(q)'
           /\ output' = output => CrFileIsOf(q)'
           /\ processes[q].at \in {"starts", "over", "dead"} /\ processes[q].exit # 0 => CrFileIsOf(q)'
<1>1. q \in Carriers => CrCarrierSoFar(q)
  BY DEF CrInv
<1>2. CrFileIsOf(q)
  BY DEF CrInv
<1>3. q \in Carriers => CrCarrierSoFar(q)'
  BY <1>1 DEF CrCarrierSoFar, CrAccepted, CrReadsAttested, CrReceiptsHold, ReceiptFault
<1>4. CrAdmitted(q) => CrAdmitted(q)'
  BY DEF CrAdmitted
<1>5. output' = output => CrFileIsOf(q)'
  BY <1>2, <1>4 DEF CrFileIsOf
<1>6. processes[q].at \in {"starts", "over", "dead"} /\ processes[q].exit # 0 => CrFileIsOf(q)'
  BY <1>2, <1>4 DEF CrFileIsOf
<1> QED
  BY <1>3, <1>5, <1>6

\* One process moves: the others keep what holds of them.
LEMMA CrProcessKeeps ==
    ASSUME CrInv, NEW p \in CrProcesses, NEW row \in CrRows, processes' = [processes EXCEPT ![p] = row],
           UNCHANGED <<gate, inputs, crNow>>,
           CrFileIsOf(p)', p \in Carriers => CrCarrierSoFar(p)',
           \/ output' = output
           \/ output.state = "absent"
           \/ processes[p].at \notin {"starts", "over", "dead"}
    PROVE  CrInv'
<1>1. processes' \in [CrProcesses -> CrRows] /\ \A q \in CrProcesses : q # p => processes'[q] = processes[q]
  BY DEF CrInv, CrTypeOK
<1>2. CrTypeOK'
  BY <1>1 DEF CrInv, CrTypeOK, CrRows, CrRecords, CrContexts
<1>3. ASSUME NEW q \in CrProcesses, q # p
      PROVE  CrFileIsOf(q)' /\ (q \in Carriers => CrCarrierSoFar(q)')
  <2>1. processes'[q] = processes[q] /\ CrFileIsOf(q) /\ CrFileIsOf(p)
    BY <1>1, <1>3 DEF CrInv
  <2>2. CASE output' = output
    BY <2>1, <2>2, CrOthersKeep
  <2>3. CASE output' # output
    <3>1. processes[q].at \in {"starts", "over", "dead"} /\ processes[q].exit # 0
      BY <1>3, <2>1, <2>3 DEF CrFileIsOf
    <3> QED
      BY <2>1, <3>1, CrOthersKeep
  <2> QED
    BY <2>2, <2>3
<1>4. Carriers \subseteq CrProcesses
  BY DEF CrProcesses
<1> QED
  BY <1>2, <1>3, <1>4 DEF CrInv

\* A step that only moves a process, or also settles its record, and leaves
\* the file alone.
LEMMA CrMoveKeeps ==
    ASSUME CrInv, NEW p \in CrProcesses, NEW place \in CrStates, CrMoves(p, place),
           UNCHANGED <<gate, inputs, crNow, output>>,
           processes[p].at \notin {"over", "dead"}, place \notin {"starts", "over", "writes"},
           processes[p].at \in {"starts", "writes"} => place = "dead",
           p \in Carriers => /\ place \notin {"definition"}
                             /\ place = "attestation" => gate.definition = "as_fixed" /\ processes[p].loaded = 0
                             /\ place = "reads" => CrAccepted(p) /\ processes[p].loaded < 4
                             /\ place \in {"receipts", "admission"} => processes[p].loaded = 4
                             /\ place \in {"reads", "receipts", "admission"} => CrReadsAttested(p)
                             /\ place = "admission" => CrReceiptsHold(p)
    PROVE  CrInv'
<1> DEFINE row == [processes[p] EXCEPT !.at = place]
<1>1. processes[p] \in CrRows /\ processes' = [processes EXCEPT ![p] = row] /\ processes \in [CrProcesses -> CrRows]
  BY DEF CrMoves, CrInv, CrTypeOK
<1>2. /\ row \in CrRows /\ row.at = place /\ row.observed = processes[p].observed /\ row.read = processes[p].read
      /\ row.loaded = processes[p].loaded /\ row.admitted = processes[p].admitted
      /\ row.record = processes[p].record /\ row.exit = processes[p].exit
  BY <1>1 DEF CrRows
<1> HIDE DEF row
<1>3. processes'[p] = row
  BY <1>1
<1>4. CrFileIsOf(p)'
  BY <1>2, <1>3 DEF CrInv, CrFileIsOf, CrAdmitted
<1>5. p \in Carriers => CrCarrierSoFar(p)'
  BY <1>2, <1>3 DEF CrInv, CrFileIsOf, CrCarrierSoFar, CrAccepted, CrReadsAttested, CrReceiptsHold, ReceiptFault
<1> QED
  BY <1>1, <1>2, <1>4, <1>5, CrProcessKeeps

\* A refusal is recorded: the record is not ready.
LEMMA CrRefusalKeeps ==
    ASSUME CrInv, NEW p \in CrProcesses, NEW context \in CrContexts,
           NEW class \in {"source", "admission", "error"},
           CrDecides(p, CrRecord(FALSE, context, class)),
           UNCHANGED <<gate, inputs, crNow, output>>,
           processes[p].at \notin {"starts", "over", "dead", "writes"}
    PROVE  CrInv'
<1> DEFINE written == CrRecord(FALSE, context, class)
           row == [processes[p] EXCEPT !.at = "writes", !.record = written]
<1>1. processes[p] \in CrRows /\ processes' = [processes EXCEPT ![p] = row] /\ processes \in [CrProcesses -> CrRows]
  BY DEF CrDecides, CrInv, CrTypeOK
<1>2. written \in CrRecords /\ ~written.ready
  BY DEF CrRecord, CrRecords
<1> HIDE DEF written
<1>3. /\ row \in CrRows /\ row.at = "writes" /\ row.observed = processes[p].observed /\ row.read = processes[p].read
      /\ row.loaded = processes[p].loaded /\ row.record = written /\ row.exit = processes[p].exit
  BY <1>1, <1>2 DEF CrRows, CrStates
<1> HIDE DEF row
<1>4. processes'[p] = row
  BY <1>1
<1>5. CrFileIsOf(p)'
  BY <1>2, <1>3, <1>4 DEF CrInv, CrFileIsOf
<1>6. p \in Carriers => CrCarrierSoFar(p)'
  BY <1>2, <1>3, <1>4 DEF CrInv, CrCarrierSoFar, CrAccepted, CrReadsAttested
<1> QED
  BY <1>1, <1>3, <1>5, <1>6, CrProcessKeeps

LEMMA CrReserveKeeps ==
    ASSUME CrInv, NEW p \in CrProcesses, CrReserveResult(p)
    PROVE  CrInv'
<1>1. /\ processes[p] \in CrRows /\ processes \in [CrProcesses -> CrRows] /\ processes[p].at = "starts"
      /\ UNCHANGED <<gate, inputs, crNow>> /\ crNow \in Nat
      /\ CrFileIsOf(p) /\ ~processes[p].record.ready /\ processes[p].exit = -1
  BY DEF CrReserveResult, CrInv, CrTypeOK, CrFileIsOf
<1>2. p \in Carriers => processes[p].loaded = 0 /\ CrCarrierSoFar(p)
  BY <1>1 DEF CrInv, CrCarrierSoFar
<1>3. CASE MayReserve
  <2> DEFINE place == IF p \in Carriers THEN "definition" ELSE "reads"
             row == [processes[p] EXCEPT !.at = place, !.observed = crNow]
  <2>1. /\ processes' = [processes EXCEPT ![p] = row]
        /\ output' = [by |-> p, state |-> "empty", record |-> Undecided]
    BY <1>1, <1>3 DEF CrReserveResult
  <2>2. place \in {"definition", "reads"} /\ (p \in Carriers => place = "definition")
    OBVIOUS
  <2> HIDE DEF place
  <2>3. /\ row \in CrRows /\ row.at = place /\ row.loaded = processes[p].loaded
        /\ row.record = processes[p].record /\ row.exit = processes[p].exit
    BY <1>1, <2>2 DEF CrRows, CrStates
  <2> HIDE DEF row
  <2>4. processes'[p] = row
    BY <1>1, <2>1
  <2>5. CrFileIsOf(p)'
    BY <1>1, <2>1, <2>2, <2>3, <2>4 DEF CrFileIsOf
  <2>6. p \in Carriers => CrCarrierSoFar(p)'
    BY <1>1, <1>2, <2>2, <2>3, <2>4 DEF CrCarrierSoFar, CrReadsAttested
  <2> QED
    BY <1>1, <1>3, <2>1, <2>3, <2>5, <2>6, CrProcessKeeps DEF MayReserve
<1>4. CASE ~MayReserve
  <2> DEFINE exit == IF p \in Carriers THEN 2 ELSE 3
             row == [processes[p] EXCEPT !.at = "over", !.exit = exit]
  <2>1. processes' = [processes EXCEPT ![p] = row] /\ output' = output
    BY <1>1, <1>4 DEF CrReserveResult, CrEnds
  <2>2. exit \in Int /\ exit # 0
    OBVIOUS
  <2> HIDE DEF exit
  <2>3. /\ row \in CrRows /\ row.at = "over" /\ row.loaded = processes[p].loaded
        /\ row.record = processes[p].record /\ row.exit = exit
    BY <1>1, <2>2 DEF CrRows, CrStates
  <2> HIDE DEF row
  <2>4. processes'[p] = row
    BY <1>1, <2>1
  <2>5. CrFileIsOf(p)'
    BY <1>1, <2>1, <2>2, <2>3, <2>4 DEF CrFileIsOf
  <2>6. p \in Carriers => CrCarrierSoFar(p)'
    BY <1>1, <1>2, <2>3, <2>4 DEF CrCarrierSoFar, CrReadsAttested
  <2> QED
    BY <1>1, <2>1, <2>3, <2>5, <2>6, CrProcessKeeps
<1> QED
  BY <1>3, <1>4

LEMMA CrDefinitionKeeps ==
    ASSUME CrInv, NEW p \in CrProcesses, CrDefinition(p)
    PROVE  CrInv'
<1>1. processes[p].at = "definition" /\ UNCHANGED <<gate, inputs, crNow, output>>
  BY DEF CrDefinition, CrInv, CrTypeOK
<1>2. p \in Carriers => processes[p].loaded = 0
  BY <1>1 DEF CrInv, CrCarrierSoFar
<1>3. CASE gate.definition = "as_fixed"
  BY <1>1, <1>2, <1>3, CrMoveKeeps DEF CrDefinition, CrStates
<1>4. CASE gate.definition # "as_fixed"
  BY <1>1, <1>4, CrRefusalKeeps DEF CrDefinition, CrContexts
<1> QED
  BY <1>3, <1>4

LEMMA CrAttestationKeeps ==
    ASSUME CrInv, NEW p \in CrProcesses, CrAttestation(p)
    PROVE  CrInv'
<1>1. processes[p].at = "attestation" /\ UNCHANGED <<gate, inputs, crNow, output>>
  BY DEF CrAttestation
<1>2. p \in Carriers => processes[p].loaded = 0 /\ gate.definition = "as_fixed"
  BY <1>1 DEF CrInv, CrCarrierSoFar
<1>3. \/ \E context \in {"missing", "wrong_source", "stale"} : CrRefuses(p, context)
      \/ /\ gate.attestation.valid /\ CrFresh(gate.attestation, processes[p].observed) /\ gate.absent = {}
         /\ CrMoves(p, "reads")
  BY DEF CrAttestation
<1>4. CASE \E context \in {"missing", "wrong_source", "stale"} : CrRefuses(p, context)
  BY <1>1, <1>4, CrRefusalKeeps DEF CrRefuses, CrContexts
<1>5. CASE /\ gate.attestation.valid /\ CrFresh(gate.attestation, processes[p].observed) /\ gate.absent = {}
           /\ CrMoves(p, "reads")
  <2>1. p \in Carriers => CrAccepted(p)
    BY <1>2, <1>5 DEF CrAccepted
  <2>2. p \in Carriers => CrReadsAttested(p)
    BY <1>2 DEF CrReadsAttested
  <2> QED
    BY <1>1, <1>2, <1>5, <2>1, <2>2, CrMoveKeeps DEF CrStates
<1> QED
  BY <1>3, <1>4, <1>5

\* The next input, once and for all: what was read before stays.
LEMMA CrReadKeeps ==
    ASSUME CrInv, NEW p \in CrProcesses, CrRead(p)
    PROVE  CrInv'
<1> DEFINE loaded == processes[p].loaded + 1
           name == CrOrder[loaded]
           next == IF ~AsAttested(name) THEN "writes" ELSE IF loaded < Len(CrOrder) THEN "reads" ELSE "receipts"
           written == IF next = "writes" THEN CrRecord(FALSE, "wrong_source", "admission") ELSE processes[p].record
           got == [processes[p].read EXCEPT ![name] = inputs[name]]
           row == [processes[p] EXCEPT !.loaded = loaded, !.read = got, !.at = next, !.record = written]
<1>1. /\ processes[p] \in CrRows /\ processes \in [CrProcesses -> CrRows] /\ processes[p].at = "reads"
      /\ UNCHANGED <<gate, inputs, crNow, output>> /\ inputs \in [CrInputs -> CrDocument]
      /\ p \in Carriers /\ CrCarrierSoFar(p) /\ CrFileIsOf(p)
  BY DEF CrRead, CrInv, CrTypeOK
<1>2. /\ processes[p].loaded \in 0 .. 3 /\ loaded \in 1 .. 4 /\ CrAccepted(p) /\ CrReadsAttested(p)
      /\ ~processes[p].record.ready
  <2>1. processes[p].loaded \in 0 .. 4 /\ processes[p].loaded < 4
    BY <1>1 DEF CrRows, CrCarrierSoFar
  <2> QED
    BY <1>1, <2>1 DEF CrCarrierSoFar, CrFileIsOf
<1>3. name \in CrInputs /\ inputs[name] \in CrDocument
  BY <1>1, <1>2, CrOrderNames
<1>4. processes' = [processes EXCEPT ![p] = row]
  BY DEF CrRead
<1>5. /\ next \in {"writes", "reads", "receipts"}
      /\ next # "writes" => inputs[name].version = gate.attestation.versions[name]
      /\ next = "reads" => loaded < 4
      /\ next = "receipts" => loaded = 4
  BY <1>2, CrOrderNames DEF AsAttested
<1>6. written \in CrRecords /\ ~written.ready
  BY <1>1, <1>2 DEF CrRecord, CrRecords, CrContexts, CrRows
<1>7. /\ got \in [CrInputs -> CrDocument \cup {Undecided}] /\ got[name] = inputs[name]
      /\ \A n \in CrInputs : n # name => got[n] = processes[p].read[n]
  BY <1>1, <1>3 DEF CrRows
<1> HIDE DEF loaded, name, next, written, got
<1>8. /\ row \in CrRows /\ row.at = next /\ row.observed = processes[p].observed /\ row.read = got
      /\ row.loaded = loaded /\ row.record = written /\ row.exit = processes[p].exit
  <2>1. /\ loaded \in 0 .. 4 /\ next \in CrStates /\ written \in CrRecords
        /\ got \in [CrInputs -> CrDocument \cup {Undecided}]
    BY <1>2, <1>5, <1>6, <1>7 DEF CrStates
  <2> QED
    BY <1>1, <2>1 DEF CrRows
<1> HIDE DEF row
<1>9. processes'[p] = row
  BY <1>1, <1>4
<1>10. CrFileIsOf(p)'
  BY <1>1, <1>5, <1>6, <1>8, <1>9 DEF CrFileIsOf
<1>11. next # "writes" => CrReadsAttested(p)'
  <2> SUFFICES ASSUME next # "writes", NEW i \in 1 .. loaded
               PROVE  got[CrOrder[i]] \in CrDocument /\ got[CrOrder[i]].version = gate.attestation.versions[CrOrder[i]]
    BY <1>1, <1>8, <1>9 DEF CrReadsAttested
  <2>1. CASE i = loaded
    BY <1>3, <1>5, <1>7, <2>1 DEF name
  <2>2. CASE i # loaded
    <3>1. i \in 1 .. processes[p].loaded /\ i \in 1 .. 4
      BY <1>2, <2>2 DEF loaded
    <3>2. CrOrder[i] \in CrInputs /\ CrOrder[i] # name
      BY <1>2, <2>2, <3>1, CrOrderNames DEF name
    <3> QED
      BY <1>2, <1>7, <3>1, <3>2 DEF CrReadsAttested
  <2> QED
    BY <2>1, <2>2
<1>12. CrAccepted(p)'
  BY <1>1, <1>2, <1>8, <1>9 DEF CrAccepted
<1>13. CrCarrierSoFar(p)'
  BY <1>5, <1>6, <1>8, <1>9, <1>11, <1>12 DEF CrCarrierSoFar
<1> QED
  BY <1>1, <1>4, <1>8, <1>10, <1>13, CrProcessKeeps

LEMMA CrReceiptsKeeps ==
    ASSUME CrInv, NEW p \in CrProcesses, CrCheckReceipts(p)
    PROVE  CrInv'
<1> DEFINE faulty == {n \in 2..4 : ReceiptFault(p, CrOrder[n]) # "none"}
           first == CHOOSE n \in faulty : \A m \in faulty : n <= m
<1>1. /\ processes[p].at = "receipts" /\ UNCHANGED <<gate, inputs, crNow, output>>
      /\ IF faulty = {} THEN CrMoves(p, "admission") ELSE CrRefuses(p, ReceiptFault(p, CrOrder[first]))
  BY DEF CrCheckReceipts
<1>2. p \in Carriers => CrReadsAttested(p) /\ processes[p].loaded = 4
  BY <1>1 DEF CrInv, CrCarrierSoFar
<1>3. CASE faulty = {}
  <2>1. CrReceiptsHold(p) /\ CrMoves(p, "admission")
    BY <1>1, <1>3 DEF CrReceiptsHold
  <2> QED
    BY <1>1, <1>2, <2>1, CrMoveKeeps DEF CrStates
<1>4. CASE faulty # {}
  <2> DEFINE fault == ReceiptFault(p, CrOrder[first])
  <2>1. fault \in {"stale", "wrong_source", "invalid", "none"}
    BY DEF ReceiptFault
  <2>2. CrRefuses(p, fault)
    BY <1>1, <1>4
  <2> HIDE DEF fault
  <2> QED
    BY <1>1, <2>1, <2>2, CrRefusalKeeps DEF CrRefuses, CrContexts
<1> QED
  BY <1>3, <1>4

LEMMA CrLoadKeeps ==
    ASSUME CrInv, NEW p \in CrProcesses, CrLoadLedger(p)
    PROVE  CrInv'
<1>1. /\ processes[p] \in CrRows /\ processes \in [CrProcesses -> CrRows] /\ processes[p].at = "reads"
      /\ UNCHANGED <<gate, inputs, crNow, output>> /\ inputs \in [CrInputs -> CrDocument]
      /\ p \notin Carriers /\ CrFileIsOf(p)
  BY CrAssumption DEF CrLoadLedger, CrInv, CrTypeOK
<1>2. CASE inputs["ledger"].valid
  <2> DEFINE got == [processes[p].read EXCEPT !["ledger"] = inputs["ledger"]]
             row == [processes[p] EXCEPT !.at = "admission", !.read = got]
  <2>1. processes' = [processes EXCEPT ![p] = row]
    BY <1>2 DEF CrLoadLedger
  <2>2. got \in [CrInputs -> CrDocument \cup {Undecided}]
    BY <1>1 DEF CrRows, CrInputs
  <2> HIDE DEF got
  <2>3. /\ row \in CrRows /\ row.at = "admission" /\ row.record = processes[p].record /\ row.exit = processes[p].exit
    BY <1>1, <2>2 DEF CrRows, CrStates
  <2> HIDE DEF row
  <2>4. processes'[p] = row
    BY <1>1, <2>1
  <2>5. CrFileIsOf(p)'
    BY <1>1, <2>3, <2>4 DEF CrFileIsOf
  <2> QED
    BY <1>1, <2>1, <2>3, <2>5, CrProcessKeeps
<1>3. CASE ~inputs["ledger"].valid
  BY <1>1, <1>3, CrRefusalKeeps DEF CrLoadLedger, CrContexts
<1> QED
  BY <1>2, <1>3

\* A record is ready only where nothing is missing and the deadline fits.
LEMMA CrAdmitKeeps ==
    ASSUME CrInv, NEW p \in CrProcesses, CrAdmit(p)
    PROVE  CrInv'
<1> DEFINE missing == gate.missing \cup gate.absent \cup IF DeadlineFits THEN {} ELSE {"deadline"}
           written == CrRecord(missing = {}, IF p \in Carriers THEN "verified" ELSE "none", "none")
           row == [processes[p] EXCEPT !.at = "writes", !.record = written, !.admitted = crNow]
<1>1. /\ processes[p] \in CrRows /\ processes \in [CrProcesses -> CrRows] /\ processes[p].at = "admission"
      /\ UNCHANGED <<gate, inputs, crNow, output>> /\ crNow \in Nat
      /\ CrFileIsOf(p) /\ processes' = [processes EXCEPT ![p] = row]
  BY DEF CrAdmit, CrInv, CrTypeOK
<1>2. written \in CrRecords /\ (written.ready <=> missing = {})
  BY DEF CrRecord, CrRecords, CrContexts
<1>3. missing = {} => gate.missing = {} /\ gate.absent = {} /\ DeadlineFits
  OBVIOUS
<1> HIDE DEF written, missing
<1>4. /\ row \in CrRows /\ row.at = "writes" /\ row.record = written /\ row.admitted = crNow
      /\ row.read = processes[p].read /\ row.observed = processes[p].observed
      /\ row.loaded = processes[p].loaded /\ row.exit = processes[p].exit
  BY <1>1, <1>2 DEF CrRows, CrStates
<1> HIDE DEF row
<1>5. processes'[p] = row
  BY <1>1
<1>6. CrFileIsOf(p)'
  BY <1>1, <1>2, <1>3, <1>4, <1>5 DEF CrFileIsOf, CrAdmitted, DeadlineFits
<1>7. p \in Carriers => CrCarrierSoFar(p)'
  <2> SUFFICES ASSUME p \in Carriers PROVE CrCarrierSoFar(p)'
    OBVIOUS
  <2>1. processes[p].loaded = 4 /\ CrAccepted(p) /\ CrReadsAttested(p) /\ CrReceiptsHold(p)
    BY <1>1 DEF CrInv, CrCarrierSoFar
  <2>2. CrAccepted(p)' /\ CrReadsAttested(p)' /\ CrReceiptsHold(p)'
    BY <1>1, <1>4, <1>5, <2>1 DEF CrAccepted, CrReadsAttested, CrReceiptsHold, ReceiptFault
  <2> QED
    BY <1>4, <1>5, <2>1, <2>2 DEF CrCarrierSoFar
<1> QED
  BY <1>1, <1>4, <1>6, <1>7, CrProcessKeeps

LEMMA CrWriteKeeps ==
    ASSUME CrInv, NEW p \in CrProcesses, NEW fault \in BOOLEAN, CrWrite(p, fault)
    PROVE  CrInv'
<1> DEFINE exit == IF ~fault THEN CrExit(p) ELSE IF p \in Carriers THEN 2 ELSE 1
           row == [processes[p] EXCEPT !.at = "over", !.exit = exit]
<1>1. /\ processes[p] \in CrRows /\ processes \in [CrProcesses -> CrRows] /\ processes[p].at = "writes"
      /\ UNCHANGED <<gate, inputs, crNow>>
      /\ CrFileIsOf(p) /\ processes' = [processes EXCEPT ![p] = row]
      /\ ~fault => output' = [by |-> p, state |-> "whole", record |-> processes[p].record]
  BY DEF CrWrite, CrEnds, CrInv, CrTypeOK
<1>2. exit \in Int /\ (exit = 0 => ~fault /\ processes[p].record.ready)
  BY DEF CrExit
<1> HIDE DEF exit
<1>3. /\ row \in CrRows /\ row.at = "over" /\ row.record = processes[p].record /\ row.admitted = processes[p].admitted
      /\ row.read = processes[p].read /\ row.observed = processes[p].observed
      /\ row.loaded = processes[p].loaded /\ row.exit = exit
  BY <1>1, <1>2 DEF CrRows, CrStates
<1> HIDE DEF row
<1>4. processes'[p] = row
  BY <1>1
<1>5. CrFileIsOf(p)'
  BY <1>1, <1>2, <1>3, <1>4 DEF CrFileIsOf, CrAdmitted
<1>6. p \in Carriers => CrCarrierSoFar(p)'
  <2>1. p \in Carriers => CrCarrierSoFar(p)
    BY DEF CrInv
  <2> QED
    BY <1>1, <1>3, <1>4, <2>1 DEF CrCarrierSoFar, CrAccepted, CrReadsAttested, CrReceiptsHold, ReceiptFault
<1> QED
  BY <1>1, <1>3, <1>5, <1>6, CrProcessKeeps

LEMMA CrDiesKeeps ==
    ASSUME CrInv, NEW p \in CrProcesses, CrDies(p)
    PROVE  CrInv'
BY CrMoveKeeps DEF CrDies, CrStates

\* An input is replaced, or time passes: nobody's row changes.
LEMMA CrOutsideKeeps ==
    ASSUME CrInv, UNCHANGED <<gate, processes, output>>, crNow' \in Nat, inputs' \in [CrInputs -> CrDocument]
    PROVE  CrInv'
<1>1. CrTypeOK'
  BY DEF CrInv, CrTypeOK, CrRows, CrRecords, CrContexts
<1>2. \A q \in CrProcesses : CrFileIsOf(q)' /\ (q \in Carriers => CrCarrierSoFar(q)')
  BY CrOthersKeep
<1> QED
  BY <1>1, <1>2 DEF CrInv, CrProcesses

LEMMA CrReplaceKeeps ==
    ASSUME CrInv, NEW name \in CrInputs, CrReplace(name)
    PROVE  CrInv'
<1> DEFINE row == [inputs[name] EXCEPT !.version = @ + 1, !.of = inputs["ledger"].version]
<1>1. inputs \in [CrInputs -> CrDocument] /\ crNow \in Nat /\ inputs["ledger"] \in CrDocument
  BY DEF CrInv, CrTypeOK, CrInputs
<1>2. inputs' = [inputs EXCEPT ![name] = row]
  BY <1>1 DEF CrReplace
<1>3. row \in CrDocument
  <2> DEFINE version == inputs[name].version + 1
             of == inputs["ledger"].version
  <2>1. inputs[name] \in CrDocument
    BY <1>1
  <2>2. version \in Nat /\ of \in Nat
    BY <1>1, <2>1 DEF CrDocument
  <2>3. row = [inputs[name] EXCEPT !.version = version, !.of = of]
    OBVIOUS
  <2> HIDE DEF row, version, of
  <2> QED
    BY <2>1, <2>2, <2>3 DEF CrDocument
<1> HIDE DEF row
<1>4. inputs' \in [CrInputs -> CrDocument]
  BY <1>1, <1>2, <1>3
<1> QED
  BY <1>1, <1>4, CrOutsideKeeps DEF CrReplace

LEMMA CrInitHolds == CrInit => CrInv
<1> SUFFICES ASSUME CrInit PROVE CrInv
  OBVIOUS
<1>1. PICK situation \in CrPrepared : gate = situation.gate /\ inputs = situation.inputs
  BY DEF CrInit
<1> DEFINE row == [at |-> "starts", observed |-> 0, read |-> [n \in CrInputs |-> Undecided], loaded |-> 0,
                   admitted |-> 0, record |-> Undecided, exit |-> -1]
<1>2. row \in CrRows
  BY DEF CrRows, CrStates, Undecided, CrRecords, CrContexts
<1>3. processes = [p \in CrProcesses |-> row] /\ ~row.record.ready
  BY DEF CrInit, Undecided
<1>4. row.at = "starts" /\ row.loaded = 0 /\ row.exit = -1 /\ row.exit # 0
  OBVIOUS
<1> HIDE DEF row
<1>5. CrTypeOK
  BY <1>1, <1>2, <1>3, CrAssumption DEF CrTypeOK, CrInit
<1>6. \A p \in CrProcesses : CrFileIsOf(p) /\ CrCarrierSoFar(p)
  BY <1>3, <1>4 DEF CrFileIsOf, CrCarrierSoFar
<1> QED
  BY <1>5, <1>6 DEF CrInv, CrProcesses

\* A process that exits with 0 left a ready record in a file of its own, and
\* the record was earned: by one valid attestation, by the four inputs as they
\* were read, by receipts fresh at the time observed, by nothing missing and by
\* a deadline with the reserve, whatever is replaced and whoever dies meanwhile.
THEOREM CrReadyAlwaysEarned == CrSpec => []CrReadyIsEarned
<1>1. CrInit => CrInv
  BY CrInitHolds
<1>2. CrInv /\ [CrNext]_crVars => CrInv'
  <2> SUFFICES ASSUME CrInv, [CrNext]_crVars PROVE CrInv'
    OBVIOUS
  <2>1. CASE CrTick \/ UNCHANGED crVars
    <3>1. crNow' \in Nat /\ inputs' \in [CrInputs -> CrDocument] /\ UNCHANGED <<gate, processes, output>>
      BY <2>1 DEF CrTick, crVars, CrInv, CrTypeOK
    <3> QED
      BY <3>1, CrOutsideKeeps
  <2>2. CASE \E name \in CrInputs : CrReplace(name)
    BY <2>2, CrReplaceKeeps
  <2>3. ASSUME NEW p \in CrProcesses,
               \/ CrReserveResult(p) \/ CrDefinition(p) \/ CrAttestation(p) \/ CrRead(p) \/ CrCheckReceipts(p)
               \/ CrLoadLedger(p) \/ CrAdmit(p) \/ CrDies(p)
               \/ \E fault \in BOOLEAN : CrWrite(p, fault)
        PROVE  CrInv'
    BY <2>3, CrReserveKeeps, CrDefinitionKeeps, CrAttestationKeeps, CrReadKeeps, CrReceiptsKeeps,
       CrLoadKeeps, CrAdmitKeeps, CrDiesKeeps, CrWriteKeeps
  <2> QED
    BY <2>1, <2>2, <2>3 DEF CrNext
<1>3. CrInv => CrReadyIsEarned
  BY CrInvEarned
<1> QED
  BY <1>1, <1>2, <1>3, PTL DEF CrSpec

(***************************************************************************)
(* AccountlessRun.                                                         *)
(***************************************************************************)

AnStates == {"start", "checks", "reads", "judges", "ended", "collision", "raised", "killed"}
AnSaid == Outputs \cup {"none"}
AnLines == [kind : STRING \cup {"inference_finished", "worker_error", "text", "number", "end"},
            output : AnSaid, valid : BOOLEAN]
AnResults == {Failed("preflight_failed"), Failed("execution_failed")} \cup {Completed(o) : o \in Outputs}
AnWorkers == [state : {"none", "runs", "leaves", "ended"}, printed : Nat, output : AnSaid, exit : Int]

AnTypeOK ==
    /\ at \in [AnCommands -> AnStates] /\ owner \in AnCommands \cup {NoCommand}
    /\ inference \in AnWorkers
    /\ pipe \in Seq(AnLines) /\ buffer \in Seq(AnLines)
    /\ loop \in [final : AnLines \cup {NoFile}, error : BOOLEAN, asked : BOOLEAN]
    /\ files \in [raw : AnSaid, result : AnResults \cup {NoFile}]

\* A result line has the output of the worker, which has printed its last line.
AnTrue(line, child) ==
    line.kind = "inference_finished" =>
        /\ line.output = child.output /\ line.output \in Outputs
        /\ child.state \in {"leaves", "ended"}
AnLinesTrue ==
    /\ \A i \in 1 .. Len(pipe) : AnTrue(pipe[i], inference)
    /\ \A i \in 1 .. Len(buffer) : AnTrue(buffer[i], inference)
    /\ loop.final # NoFile => loop.final.kind = "inference_finished" /\ AnTrue(loop.final, inference)

\* Only the command that made the directory goes on, and what it has done.
AnOwnerOnly ==
    /\ \A c \in AnCommands : at[c] \notin {"start", "collision"} => c = owner
    /\ \A c \in AnCommands : at[c] = "checks" => inference.state = "none"
    /\ \A c \in AnCommands : at[c] = "judges" => inference.state = "ended"
    /\ \A c \in AnCommands : at[c] = "reads" => inference.state # "none"
    /\ \A c \in AnCommands : at[c] = "ended" => files.result # NoFile
    /\ inference.state = "none" => pipe = <<>> /\ buffer = <<>> /\ loop.final = NoFile
    /\ owner = NoCommand => inference.state = "none"

\* A result that is written stays, and the worker has ended.
AnSettled ==
    files.result # NoFile =>
        /\ owner \in AnCommands /\ at[owner] = "ended"
        /\ inference.state \in {"none", "ended"}
        /\ files.result.status = "completed" =>
              /\ inference.exit = 0 /\ inference.output \in Outputs
              /\ files.result = Completed(inference.output) /\ files.raw = inference.output

AnInv == AnTypeOK /\ AnLinesTrue /\ AnOwnerOnly /\ AnSettled

\* What the records of a result say.
LEMMA AnResultFields ==
    /\ \A o \in Outputs : /\ Completed(o).status = "completed" /\ Completed(o).invocations = 1
                          /\ Completed(o).output = o
                          /\ Completed(o).verdict \in {"pass", "wrong_answer", "wrong_format"}
                          /\ (Completed(o).code = 0 <=> o = "right")
                          /\ Completed(o).code \in {0, 1}
    /\ \A s \in {"preflight_failed", "execution_failed"} :
          Failed(s).status = s /\ Failed(s).invocations = 0 /\ Failed(s).code \in {2, 3}
<1>1. /\ Code("pass") = 0 /\ Code("wrong") = 1 /\ Code("preflight_failed") = 2 /\ Code("execution_failed") = 3
  BY DEF Code
<1>2. \A o \in Outputs : /\ Verdict(o) \in {"pass", "wrong_answer", "wrong_format"}
                         /\ (Verdict(o) = "pass" <=> o = "right")
  BY DEF Verdict, Outputs
<1> QED
  BY <1>1, <1>2 DEF Completed, Failed

LEMMA AnInvEarned == AnInv => AnVerdictIsEarned
<1> SUFFICES ASSUME AnInv PROVE AnVerdictIsEarned
  OBVIOUS
<1>1. ASSUME files.result # NoFile
      PROVE  /\ Accepts
             /\ inference.state \in {"none", "ended"}
             /\ ExitOf(owner) = files.result.code
             /\ files.result.status = "completed" =>
                  /\ inference.exit = 0 /\ inference.output = files.result.output
                  /\ ExitOf(owner) = 0 <=> inference.output = "right"
  <2>1. files.result \in AnResults
    BY <1>1 DEF AnInv, AnTypeOK
  <2>2. ExitOf(owner) = files.result.code
    BY <1>1 DEF AnInv, AnSettled, ExitOf
  <2>3. CASE files.result.status = "completed"
    <3>1. files.result = Completed(inference.output) /\ inference.output \in Outputs /\ files.raw = inference.output
      BY <1>1, <2>3 DEF AnInv, AnSettled
    <3> QED
      BY <1>1, <2>2, <3>1, AnResultFields DEF AnInv, AnSettled, Accepts
  <2>4. CASE files.result.status # "completed"
    <3>1. files.result.invocations = 0
      BY <2>1, <2>4, AnResultFields DEF AnResults
    <3> QED
      BY <1>1, <2>2, <2>4, <3>1 DEF AnInv, AnSettled, Accepts
  <2> QED
    BY <2>3, <2>4
<1>2. ASSUME NEW c \in AnCommands, ExitOf(c) \in {0, 1}
      PROVE  c = owner /\ files.result.status = "completed"
  <2>1. at[c] = "ended"
    BY <1>2 DEF ExitOf, Code
  <2>2. c = owner /\ files.result \in AnResults /\ ExitOf(c) = files.result.code
    BY <2>1 DEF AnInv, AnOwnerOnly, AnTypeOK, ExitOf
  <2> QED
    BY <1>2, <2>2, AnResultFields DEF AnResults
<1> QED
  BY <1>1, <1>2 DEF AnVerdictIsEarned

\* The worker moves on: what was written is final, and the lines stay true.
LEMMA AnWorkerKeeps ==
    ASSUME AnInv, InfPrints \/ InfRaises \/ InfDies \/ (\E said \in Outputs, valid \in BOOLEAN : InfPrintsResult(said, valid))
                  \/ (\E kind \in {"text", "number"} : InfStrays(kind)) \/ (\E code \in {0, 1} : InfExits(code))
    PROVE  AnInv'
<1>1. /\ UNCHANGED <<at, owner, buffer, loop, files>>
      /\ inference.state \in {"runs", "leaves"}
  BY DEF InfPrints, InfRaises, InfDies, InfPrintsResult, InfStrays, InfExits
<1>2. /\ inference \in AnWorkers /\ pipe \in Seq(AnLines) /\ Stages \in Seq(STRING \ {"inference_finished"})
      /\ owner \in AnCommands
  BY <1>1, AnAssumption DEF AnInv, AnTypeOK, AnOwnerOnly
<1>3. \E line \in AnLines :
         /\ pipe' \in {pipe, Append(pipe, line)}
         /\ line.kind = "inference_finished" => inference'.state = "leaves" /\ line.output = inference'.output
                                                /\ line.output \in Outputs
  <2>1. CASE InfPrints
    <3> DEFINE line == ToRead(Stages[inference.printed + 1])
    <3>1. Stages[inference.printed + 1] \in STRING \ {"inference_finished"}
      BY <1>2, <2>1 DEF InfPrints, AnWorkers
    <3>2. line \in AnLines /\ line.kind # "inference_finished"
      BY <3>1 DEF ToRead, AnLines, AnSaid
    <3> QED
      BY <2>1, <3>2 DEF InfPrints
  <2>2. ASSUME NEW kind \in {"worker_error", "text", "number"}
        PROVE  ToRead(kind) \in AnLines /\ ToRead(kind).kind # "inference_finished"
    BY DEF ToRead, AnLines, AnSaid
  <2>3. ASSUME NEW said \in Outputs, NEW valid \in BOOLEAN, InfPrintsResult(said, valid)
        PROVE  \E line \in AnLines :
                  /\ pipe' \in {pipe, Append(pipe, line)}
                  /\ line.kind = "inference_finished" => inference'.state = "leaves" /\ line.output = inference'.output
                                                         /\ line.output \in Outputs
    <3>1. ResultLine(said, valid) \in AnLines /\ ResultLine(said, valid).output = said
      BY DEF ResultLine, AnLines, AnSaid
    <3>2. inference'.state = "leaves" /\ inference'.output = said
      BY <1>2, <2>3 DEF InfPrintsResult, AnWorkers
    <3> QED
      BY <2>3, <3>1, <3>2 DEF InfPrintsResult
  <2>4. CASE InfRaises \/ InfDies \/ (\E kind \in {"text", "number"} : InfStrays(kind)) \/ (\E code \in {0, 1} : InfExits(code))
    BY <2>2, <2>4 DEF InfRaises, InfDies, InfStrays, InfExits
  <2> QED
    BY <2>1, <2>3, <2>4
<1>4. /\ inference' \in AnWorkers
      /\ inference'.state \in {"runs", "leaves", "ended"}
      /\ inference'.output = inference.output \/ inference.state = "runs"
      /\ inference.state = "leaves" => inference'.state \in {"leaves", "ended"}
  <2>1. CASE \E said \in Outputs, valid \in BOOLEAN : InfPrintsResult(said, valid)
    BY <1>2, <2>1 DEF InfPrintsResult, AnWorkers, AnSaid
  <2>2. CASE InfPrints \/ InfRaises \/ InfDies
    <3>1. CASE InfPrints
      <4>1. inference' = [inference EXCEPT !.printed = inference.printed + 1] /\ inference.printed + 1 \in Nat
        BY <1>2, <3>1 DEF InfPrints, AnWorkers
      <4> QED
        BY <1>2, <3>1, <4>1 DEF InfPrints, AnWorkers
    <3>2. CASE InfRaises
      <4>1. \E exit \in Int : inference' = [inference EXCEPT !.state = "leaves", !.exit = exit]
        <5>1. 3 \in Int
          OBVIOUS
        <5> QED
          BY <3>2, <5>1 DEF InfRaises
      <4>2. PICK exit \in Int : inference' = [inference EXCEPT !.state = "leaves", !.exit = exit]
        BY <4>1
      <4>3. inference.state = "runs"
        BY <3>2 DEF InfRaises
      <4> QED
        BY <1>2, <4>2, <4>3 DEF AnWorkers
    <3>3. CASE InfDies
      <4>1. inference.state = "runs" /\ \E exit \in Int : inference' = [inference EXCEPT !.state = "ended", !.exit = exit]
        <5>1. -9 \in Int
          OBVIOUS
        <5> QED
          BY <3>3, <5>1 DEF InfDies
      <4>2. PICK exit \in Int : inference' = [inference EXCEPT !.state = "ended", !.exit = exit]
        BY <4>1
      <4> QED
        BY <1>2, <4>1, <4>2 DEF AnWorkers
    <3> QED
      BY <2>2, <3>1, <3>2, <3>3
  <2>3. CASE \E kind \in {"text", "number"} : InfStrays(kind)
    BY <1>1, <1>2, <2>3 DEF InfStrays
  <2>4. CASE \E code \in {0, 1} : InfExits(code)
    <3>1. PICK code \in {0, 1} : InfExits(code)
      BY <2>4
    <3> DEFINE exit == IF inference.exit = 0 THEN code ELSE inference.exit
    <3>2. inference' = [inference EXCEPT !.state = "ended", !.exit = exit] /\ exit \in Int
          /\ inference.state = "leaves"
      BY <1>2, <3>1 DEF InfExits, AnWorkers
    <3> HIDE DEF exit
    <3> QED
      BY <1>2, <3>2 DEF AnWorkers
  <2> QED
    BY <2>1, <2>2, <2>3, <2>4
<1>5. \A line : AnTrue(line, inference) => AnTrue(line, inference')
  BY <1>1, <1>4 DEF AnTrue
<1>6. pipe' \in Seq(AnLines) /\ \A i \in 1 .. Len(pipe') : AnTrue(pipe'[i], inference')
  <2>1. PICK line \in AnLines :
         /\ pipe' \in {pipe, Append(pipe, line)}
         /\ line.kind = "inference_finished" => inference'.state = "leaves" /\ line.output = inference'.output
                                                /\ line.output \in Outputs
    BY <1>3
  <2>2. AnTrue(line, inference')
    BY <2>1 DEF AnTrue
  <2>3. \A i \in 1 .. Len(pipe) : AnTrue(pipe[i], inference')
    BY <1>5 DEF AnInv, AnLinesTrue
  <2>4. CASE pipe' = pipe
    BY <1>2, <2>3, <2>4
  <2>5. CASE pipe' = Append(pipe, line)
    <3>1. pipe' \in Seq(AnLines) /\ Len(pipe') = Len(pipe) + 1 /\ pipe'[Len(pipe) + 1] = line
          /\ \A i \in 1 .. Len(pipe) : pipe'[i] = pipe[i]
      BY <1>2, <2>5
    <3>2. \A i \in 1 .. Len(pipe') : i \in 1 .. Len(pipe) \/ i = Len(pipe) + 1
      BY <1>2, <3>1
    <3> QED
      BY <2>2, <2>3, <3>1, <3>2
  <2> QED
    BY <2>1, <2>4, <2>5
<1>7. AnTypeOK'
  BY <1>1, <1>4, <1>6 DEF AnInv, AnTypeOK
<1>8. AnLinesTrue'
  BY <1>1, <1>5, <1>6 DEF AnInv, AnLinesTrue
<1>9. files.result = NoFile
  BY <1>1 DEF AnInv, AnSettled
<1>10. AnOwnerOnly'
  BY <1>1, <1>2, <1>4, AnAssumption DEF AnInv, AnOwnerOnly
<1>11. AnSettled'
  BY <1>1, <1>9 DEF AnSettled
<1> QED
  BY <1>7, <1>8, <1>10, <1>11 DEF AnInv

LEMMA AnReserveKeeps ==
    ASSUME AnInv, NEW c \in AnCommands, AnReserve(c)
    PROVE  AnInv'
<1>1. UNCHANGED <<inference, pipe, buffer, loop, files>> /\ at[c] = "start" /\ at \in [AnCommands -> AnStates]
  BY DEF AnReserve, AnInv, AnTypeOK
<1>2. CASE owner = NoCommand
  <2>1. owner' = c /\ at' = [at EXCEPT ![c] = "checks"] /\ files.result = NoFile /\ inference.state = "none"
    BY <1>2, AnAssumption DEF AnReserve, AnInv, AnSettled, AnOwnerOnly
  <2>2. \A d \in AnCommands : at[d] \in {"start", "collision"}
    BY <1>2, AnAssumption DEF AnInv, AnOwnerOnly
  <2>3. \A d \in AnCommands : at'[d] = IF d = c THEN "checks" ELSE at[d]
    BY <1>1, <2>1
  <2>4. AnTypeOK'
    BY <1>1, <2>1 DEF AnInv, AnTypeOK, AnStates
  <2> QED
    BY <1>1, <1>2, <2>1, <2>2, <2>3, <2>4, AnAssumption DEF AnInv, AnLinesTrue, AnOwnerOnly, AnSettled
<1>3. CASE owner # NoCommand
  <2>1. owner' = owner /\ at' = [at EXCEPT ![c] = "collision"]
    BY <1>3 DEF AnReserve
  <2>2. \A d \in AnCommands : at'[d] = IF d = c THEN "collision" ELSE at[d]
    BY <1>1, <2>1
  <2>3. AnTypeOK'
    BY <1>1, <2>1 DEF AnInv, AnTypeOK, AnStates
  <2>4. AnOwnerOnly'
    BY <1>1, <1>3, <2>1, <2>2 DEF AnInv, AnOwnerOnly
  <2>5. AnSettled'
    BY <1>1, <2>1, <2>2 DEF AnInv, AnSettled
  <2> QED
    BY <1>1, <2>3, <2>4, <2>5 DEF AnInv, AnLinesTrue
<1> QED
  BY <1>2, <1>3

\* A step of the owner to another point of its run, with no result yet.
LEMMA AnOwnerMoves ==
    ASSUME AnInv, NEW c \in AnCommands, at[c] \in {"checks", "reads", "judges"},
           NEW state \in AnStates \ {"start", "collision", "checks", "ended"},
           at' = [at EXCEPT ![c] = state], UNCHANGED <<owner, files>>,
           inference' \in AnWorkers,
           \/ inference' = inference
           \/ inference.state # "none" /\ inference'.state = "ended"
           \/ inference.state = "none" /\ inference'.state = "runs",
           state = "judges" => inference'.state = "ended", state = "reads" => inference'.state # "none",
           pipe' \in Seq(AnLines), buffer' \in Seq(AnLines),
           loop' \in [final : AnLines \cup {NoFile}, error : BOOLEAN, asked : BOOLEAN],
           AnLinesTrue',
           inference'.state = "none" => pipe' = <<>> /\ buffer' = <<>> /\ loop'.final = NoFile
    PROVE  AnInv'
<1>1. c = owner /\ at \in [AnCommands -> AnStates] /\ files.result = NoFile /\ owner # NoCommand
  BY AnAssumption DEF AnInv, AnTypeOK, AnOwnerOnly, AnSettled
<1>2. \A d \in AnCommands : at'[d] = IF d = c THEN state ELSE at[d]
  BY <1>1
<1>3. AnTypeOK'
  BY <1>1 DEF AnInv, AnTypeOK
<1>4. \A d \in AnCommands : d # c => at[d] \in {"start", "collision"}
  BY <1>1 DEF AnInv, AnOwnerOnly
<1>5. AnOwnerOnly'
  BY <1>1, <1>2, <1>4 DEF AnInv, AnOwnerOnly
<1>6. AnSettled'
  BY <1>1 DEF AnSettled
<1> QED
  BY <1>3, <1>5, <1>6 DEF AnInv

\* terminate leaves a worker that has ended, with the output it had.
LEMMA AnStopped ==
    ASSUME AnInv
    PROVE  /\ Stopped \in AnWorkers /\ Stopped.output = inference.output /\ Stopped.state = "ended"
           /\ \A line : AnTrue(line, inference) => AnTrue(line, Stopped)
<1>1. inference \in AnWorkers
  BY DEF AnInv, AnTypeOK
<1>2. Stopped \in AnWorkers /\ Stopped.output = inference.output /\ Stopped.state = "ended"
  <2>1. CASE inference.state = "ended"
    BY <1>1, <2>1 DEF Stopped
  <2>2. CASE inference.state # "ended"
    <3>1. Stopped = [inference EXCEPT !.state = "ended", !.exit = -15] /\ -15 \in Int
      BY <2>2 DEF Stopped
    <3> QED
      BY <1>1, <3>1 DEF AnWorkers
  <2> QED
    BY <2>1, <2>2
<1> QED
  BY <1>2 DEF AnTrue

\* The result that is written is one of the failures, or the worker's output.
LEMMA AnResultKeeps ==
    ASSUME AnInv, NEW c \in AnCommands, at[c] \in {"checks", "judges"},
           at' = [at EXCEPT ![c] = "ended"], UNCHANGED <<owner, inference, pipe, buffer, loop>>,
           files' \in [raw : AnSaid, result : AnResults],
           files'.result.status = "completed" =>
              /\ inference.exit = 0 /\ inference.output \in Outputs
              /\ files'.result = Completed(inference.output) /\ files'.raw = inference.output
    PROVE  AnInv'
<1>1. c = owner /\ at \in [AnCommands -> AnStates] /\ inference.state \in {"none", "ended"}
  BY DEF AnInv, AnTypeOK, AnOwnerOnly
<1>2. \A d \in AnCommands : at'[d] = IF d = c THEN "ended" ELSE at[d]
  BY <1>1
<1>3. files'.result # NoFile
  <2>1. \A s \in {"preflight_failed", "execution_failed"} : Failed(s) # NoFile
    BY DEF Failed, NoFile
  <2>2. \A o \in Outputs : Completed(o) # NoFile
    BY DEF Completed, NoFile
  <2> QED
    BY <2>1, <2>2 DEF AnResults
<1>4. AnTypeOK'
  BY <1>1 DEF AnInv, AnTypeOK, AnStates
<1>5. AnOwnerOnly'
  BY <1>1, <1>2, <1>3 DEF AnInv, AnOwnerOnly
<1>6. AnSettled'
  BY <1>1, <1>2 DEF AnSettled
<1> QED
  BY <1>4, <1>5, <1>6 DEF AnInv, AnLinesTrue

LEMMA AnPreflightKeeps ==
    ASSUME AnInv, NEW c \in AnCommands, NEW ok \in BOOLEAN, AnPreflight(c, ok)
    PROVE  AnInv'
<1>1. at[c] = "checks" /\ UNCHANGED <<owner, pipe, buffer, loop>> /\ inference.state = "none"
  BY DEF AnPreflight, AnInv, AnOwnerOnly
<1>2. /\ pipe = <<>> /\ buffer = <<>> /\ loop.final = NoFile
      /\ pipe \in Seq(AnLines) /\ buffer \in Seq(AnLines) /\ inference \in AnWorkers
      /\ loop \in [final : AnLines \cup {NoFile}, error : BOOLEAN, asked : BOOLEAN]
      /\ files \in [raw : AnSaid, result : AnResults \cup {NoFile}]
  BY <1>1 DEF AnInv, AnOwnerOnly, AnTypeOK
<1>3. CASE ok
  <2>1. inference' = Started /\ at' = [at EXCEPT ![c] = "reads"] /\ UNCHANGED files
    BY <1>3 DEF AnPreflight
  <2>2. Started \in AnWorkers /\ Started.state = "runs" /\ Started.output = "none"
    BY DEF Started, AnWorkers, AnSaid
  <2>3. AnLinesTrue'
    BY <1>1, <1>2 DEF AnLinesTrue
  <2> QED
    BY <1>1, <1>2, <2>1, <2>2, <2>3, AnOwnerMoves DEF AnStates
<1>4. CASE ~ok
  <2>1. files' = [files EXCEPT !.result = Failed("preflight_failed")] /\ at' = [at EXCEPT ![c] = "ended"]
        /\ UNCHANGED inference
    BY <1>4 DEF AnPreflight, LeavesResult
  <2>2. files' \in [raw : AnSaid, result : AnResults] /\ files'.result = Failed("preflight_failed")
    BY <1>2, <2>1 DEF AnResults
  <2>3. files'.result.status # "completed"
    BY <2>2, AnResultFields
  <2> QED
    BY <1>1, <2>1, <2>2, <2>3, AnResultKeeps
<1> QED
  BY <1>3, <1>4

\* The timeout, and the end of the loop: the worker is stopped, then judged.
LEMMA AnLeavesLoop ==
    ASSUME AnInv, NEW c \in AnCommands, at[c] = "reads", inference.state # "none",
           at' = [at EXCEPT ![c] = "judges"], inference' = Stopped,
           UNCHANGED <<owner, pipe, buffer, files>>, loop'.final = loop.final,
           loop' \in [final : AnLines \cup {NoFile}, error : BOOLEAN, asked : BOOLEAN]
    PROVE  AnInv'
<1>1. inference' \in AnWorkers /\ inference'.state = "ended" /\ \A line : AnTrue(line, inference) => AnTrue(line, inference')
  BY AnStopped
<1>2. AnLinesTrue'
  BY <1>1 DEF AnInv, AnLinesTrue
<1>3. pipe' \in Seq(AnLines) /\ buffer' \in Seq(AnLines)
  BY DEF AnInv, AnTypeOK
<1> QED
  BY <1>1, <1>2, <1>3, AnOwnerMoves DEF AnStates

LEMMA AnTimeoutKeeps ==
    ASSUME AnInv, NEW c \in AnCommands, AnTimeout(c)
    PROVE  AnInv'
<1>1. loop' = [loop EXCEPT !.error = TRUE] /\ loop \in [final : AnLines \cup {NoFile}, error : BOOLEAN, asked : BOOLEAN]
  BY DEF AnTimeout, AnInv, AnTypeOK
<1>2. inference.state # "none"
  BY DEF AnTimeout, AnInv, AnOwnerOnly
<1> QED
  BY <1>1, <1>2, AnLeavesLoop DEF AnTimeout

LEMMA AnLoopKeeps ==
    ASSUME AnInv, NEW c \in AnCommands, AnLoop(c)
    PROVE  AnInv'
<1> DEFINE leaves == loop.error \/ inference.state = "ended"
<1>1. loop \in [final : AnLines \cup {NoFile}, error : BOOLEAN, asked : BOOLEAN] /\ leaves \in BOOLEAN
      /\ inference.state # "none" /\ at[c] = "reads"
  BY DEF AnLoop, AnInv, AnTypeOK, AnOwnerOnly
<1>2. loop' = [loop EXCEPT !.asked = ~leaves] /\ UNCHANGED <<owner, pipe, buffer, files>>
  BY DEF AnLoop
<1>3. loop' \in [final : AnLines \cup {NoFile}, error : BOOLEAN, asked : BOOLEAN] /\ loop'.final = loop.final
  BY <1>1, <1>2
<1>4. CASE leaves
  BY <1>1, <1>2, <1>3, <1>4, AnLeavesLoop DEF AnLoop
<1>5. CASE ~leaves
  BY <1>2, <1>3, <1>5 DEF AnLoop, AnInv, AnTypeOK, AnLinesTrue, AnOwnerOnly, AnSettled
<1> QED
  BY <1>4, <1>5

LEMMA AnReadKeeps ==
    ASSUME AnInv, NEW c \in AnCommands, AnRead(c)
    PROVE  AnInv'
<1> DEFINE line == IF Lines = <<>> THEN ToRead("end") ELSE Head(Lines)
<1>1. /\ pipe \in Seq(AnLines) /\ buffer \in Seq(AnLines) /\ inference \in AnWorkers /\ at \in [AnCommands -> AnStates]
      /\ loop \in [final : AnLines \cup {NoFile}, error : BOOLEAN, asked : BOOLEAN]
      /\ inference.state # "none" /\ at[c] = "reads"
  BY DEF AnRead, AnInv, AnTypeOK, AnOwnerOnly
<1>2. Lines \in Seq(AnLines) /\ \A i \in 1 .. Len(Lines) : AnTrue(Lines[i], inference)
  BY <1>1 DEF Lines, AnInv, AnLinesTrue
<1>3. line \in AnLines /\ AnTrue(line, inference)
  <2>1. CASE Lines = <<>>
    <3>1. ToRead("end") \in AnLines /\ ToRead("end").kind # "inference_finished"
      BY DEF ToRead, AnLines, AnSaid
    <3> QED
      BY <2>1, <3>1 DEF AnTrue
  <2>2. CASE Lines # <<>>
    <3>1. Head(Lines) \in AnLines /\ Head(Lines) = Lines[1] /\ 1 \in 1 .. Len(Lines)
      BY <1>2, <2>2
    <3> QED
      BY <1>2, <2>2, <3>1
  <2> QED
    BY <2>1, <2>2
<1>4. /\ loop' = [final |-> IF line.kind = "inference_finished" THEN line ELSE loop.final,
                  error |-> loop.error \/ line.kind \in {"worker_error", "text"}, asked |-> FALSE]
      /\ inference' = IF line.kind = "text" THEN Stopped ELSE inference
      /\ at' = IF line.kind = "number" THEN [at EXCEPT ![c] = "raised"] ELSE at
  BY DEF AnRead
<1> HIDE DEF line
<1>5. /\ loop' \in [final : AnLines \cup {NoFile}, error : BOOLEAN, asked : BOOLEAN]
      /\ loop'.final # NoFile => loop'.final.kind = "inference_finished" /\ AnTrue(loop'.final, inference)
  <2>1. (loop'.final = line /\ line.kind = "inference_finished") \/ loop'.final = loop.final
    BY <1>4
  <2>2. loop' \in [final : AnLines \cup {NoFile}, error : BOOLEAN, asked : BOOLEAN]
    BY <1>1, <1>3, <1>4
  <2> QED
    BY <1>3, <2>1, <2>2 DEF AnInv, AnLinesTrue
<1>6. /\ inference' \in AnWorkers
      /\ inference' = inference \/ inference'.state = "ended"
      /\ \A l : AnTrue(l, inference) => AnTrue(l, inference')
  BY <1>1, <1>4, AnStopped
<1>7. /\ pipe' \in Seq(AnLines) /\ \A i \in 1 .. Len(pipe') : AnTrue(pipe'[i], inference)
      /\ UNCHANGED <<owner, files>>
  BY <1>1 DEF AnRead, Unread, AnInv, AnLinesTrue
<1>8. buffer' \in Seq(AnLines) /\ \A i \in 1 .. Len(buffer') : AnTrue(buffer'[i], inference)
  <2>1. CASE Lines = <<>>
    BY <2>1 DEF AnRead
  <2>2. CASE Lines # <<>>
    <3>1. /\ buffer' = Tail(Lines) /\ Tail(Lines) \in Seq(AnLines) /\ Len(Tail(Lines)) = Len(Lines) - 1
          /\ Len(Lines) \in Nat
          /\ \A i \in 1 .. Len(Tail(Lines)) : Tail(Lines)[i] = Lines[i + 1]
      BY <1>2, <2>2 DEF AnRead
    <3>2. \A i \in 1 .. Len(Tail(Lines)) : i + 1 \in 1 .. Len(Lines)
      BY <3>1
    <3> QED
      BY <1>2, <3>1, <3>2
  <2> QED
    BY <2>1, <2>2
<1>9. AnLinesTrue'
  BY <1>5, <1>6, <1>7, <1>8 DEF AnLinesTrue
<1>10. inference'.state # "none"
  BY <1>1, <1>6
<1>11. at' = [at EXCEPT ![c] = IF line.kind = "number" THEN "raised" ELSE "reads"]
  BY <1>1, <1>4
<1>12. CASE line.kind = "number"
  BY <1>1, <1>5, <1>6, <1>7, <1>8, <1>9, <1>10, <1>11, <1>12, AnOwnerMoves DEF AnStates
<1>13. CASE line.kind # "number"
  BY <1>1, <1>5, <1>6, <1>7, <1>8, <1>9, <1>10, <1>11, <1>13, AnOwnerMoves DEF AnStates
<1> QED
  BY <1>12, <1>13

LEMMA AnWaitKeeps ==
    ASSUME AnInv, NEW c \in AnCommands, AnWait(c)
    PROVE  AnInv'
<1>1. loop' = [loop EXCEPT !.asked = FALSE] /\ loop \in [final : AnLines \cup {NoFile}, error : BOOLEAN, asked : BOOLEAN]
  BY DEF AnWait, AnInv, AnTypeOK
<1>2. loop'.final = loop.final /\ loop' \in [final : AnLines \cup {NoFile}, error : BOOLEAN, asked : BOOLEAN]
  BY <1>1
<1> QED
  BY <1>2 DEF AnWait, AnInv, AnTypeOK, AnLinesTrue, AnOwnerOnly, AnSettled

LEMMA AnJudgeKeeps ==
    ASSUME AnInv, NEW c \in AnCommands, NEW ok \in BOOLEAN, AnJudge(c, ok)
    PROVE  AnInv'
<1>1. /\ at[c] = "judges" /\ UNCHANGED <<owner, inference, pipe, buffer, loop>> /\ inference.state = "ended"
      /\ at \in [AnCommands -> AnStates] /\ inference \in AnWorkers
      /\ files \in [raw : AnSaid, result : AnResults \cup {NoFile}]
      /\ pipe \in Seq(AnLines) /\ buffer \in Seq(AnLines)
      /\ c = owner
  BY DEF AnJudge, AnInv, AnOwnerOnly, AnTypeOK
<1>2. files.result = NoFile
  BY <1>1 DEF AnInv, AnSettled
<1>3. CASE Backed /\ loop.final.valid
  <2>1. inference.exit = 0 /\ loop.final.output = inference.output /\ inference.output \in Outputs
    BY <1>3 DEF Backed, AnInv, AnLinesTrue, AnTrue
  <2>2. CASE ok
    <3>1. /\ files' = [files EXCEPT !.raw = inference.output, !.result = Completed(inference.output)]
          /\ at' = [at EXCEPT ![c] = "ended"]
      BY <1>3, <2>1, <2>2 DEF AnJudge
    <3>2. /\ files' \in [raw : AnSaid, result : AnResults]
          /\ files'.result = Completed(inference.output) /\ files'.raw = inference.output
      BY <1>1, <2>1, <3>1 DEF AnResults, AnSaid
    <3> QED
      BY <1>1, <2>1, <3>1, <3>2, AnResultKeeps
  <2>3. CASE ~ok
    <3>1. files' = [files EXCEPT !.raw = inference.output] /\ at' = [at EXCEPT ![c] = "raised"]
      BY <1>1, <1>3, <2>1, <2>3 DEF AnJudge
    <3>2. files' \in [raw : AnSaid, result : AnResults \cup {NoFile}] /\ files'.result = NoFile
      BY <1>1, <1>2, <2>1, <3>1 DEF AnSaid
    <3>3. \A d \in AnCommands : at'[d] = IF d = c THEN "raised" ELSE at[d]
      BY <1>1, <3>1
    <3>4. AnTypeOK'
      BY <1>1, <3>1, <3>2 DEF AnInv, AnTypeOK, AnStates
    <3>5. AnOwnerOnly'
      BY <1>1, <3>3 DEF AnInv, AnOwnerOnly
    <3> QED
      BY <1>1, <3>2, <3>4, <3>5 DEF AnInv, AnLinesTrue, AnSettled
  <2> QED
    BY <2>2, <2>3
<1>4. CASE ~(Backed /\ loop.final.valid)
  <2>1. files' = [files EXCEPT !.result = Failed("execution_failed")] /\ at' = [at EXCEPT ![c] = "ended"]
    BY <1>4 DEF AnJudge, LeavesResult
  <2>2. files' \in [raw : AnSaid, result : AnResults] /\ files'.result = Failed("execution_failed")
    BY <1>1, <2>1 DEF AnResults
  <2>3. files'.result.status # "completed"
    BY <2>2, AnResultFields
  <2> QED
    BY <1>1, <2>1, <2>2, <2>3, AnResultKeeps
<1> QED
  BY <1>3, <1>4

LEMMA AnKilledKeeps ==
    ASSUME AnInv, NEW c \in AnCommands, AnKilled(c)
    PROVE  AnInv'
<1>1. /\ at[c] \in {"checks", "reads", "judges"} /\ at' = [at EXCEPT ![c] = "killed"]
      /\ UNCHANGED <<owner, inference, pipe, buffer, loop, files>>
  BY DEF AnKilled
<1>2. /\ inference \in AnWorkers /\ pipe \in Seq(AnLines) /\ buffer \in Seq(AnLines)
      /\ loop \in [final : AnLines \cup {NoFile}, error : BOOLEAN, asked : BOOLEAN]
      /\ inference.state = "none" => pipe = <<>> /\ buffer = <<>> /\ loop.final = NoFile
  BY DEF AnInv, AnTypeOK, AnOwnerOnly
<1>3. AnLinesTrue'
  BY <1>1 DEF AnInv, AnLinesTrue
<1> QED
  BY <1>1, <1>2, <1>3, AnOwnerMoves DEF AnStates

LEMMA AnStarts == AnInit => AnInv
<1> SUFFICES ASSUME AnInit PROVE AnInv
  OBVIOUS
<1>1. inference = [Started EXCEPT !.state = "none"] /\ Started \in AnWorkers
  BY DEF AnInit, Started, AnWorkers, AnSaid
<1>2. inference \in AnWorkers /\ inference.state = "none"
  BY <1>1 DEF AnWorkers
<1>3. AnTypeOK
  BY <1>2 DEF AnInit, AnTypeOK, AnStates, AnSaid
<1> QED
  BY <1>2, <1>3 DEF AnInit, AnInv, AnLinesTrue, AnOwnerOnly, AnSettled

(* A verdict of an accountless run is the worker's own, from a worker that   *)
(* ended with 0, and only the command that made the run's directory reports  *)
(* it: for any set of commands given the run id, and whatever the worker's   *)
(* lines (run_command and execute_attempt, accountless_native.py:363-509).   *)
THEOREM AnVerdictAlwaysEarned == AnSpec => []AnVerdictIsEarned
<1>1. AnInv /\ [AnNext]_anVars => AnInv'
  <2> SUFFICES ASSUME AnInv, [AnNext]_anVars PROVE AnInv'
    OBVIOUS
  <2>1. CASE UNCHANGED anVars
    BY <2>1 DEF anVars, AnInv, AnTypeOK, AnLinesTrue, AnOwnerOnly, AnSettled
  <2>2. CASE \/ InfPrints \/ InfRaises \/ InfDies
             \/ \E said \in Outputs, valid \in BOOLEAN : InfPrintsResult(said, valid)
             \/ \E kind \in {"text", "number"} : InfStrays(kind)
             \/ \E code \in {0, 1} : InfExits(code)
    BY <2>2, AnWorkerKeeps
  <2>3. ASSUME NEW c \in AnCommands,
               \/ AnReserve(c) \/ AnTimeout(c) \/ AnRead(c) \/ AnWait(c) \/ AnLoop(c) \/ AnKilled(c)
               \/ \E ok \in BOOLEAN : AnPreflight(c, ok) \/ AnJudge(c, ok)
        PROVE  AnInv'
    BY <2>3, AnReserveKeeps, AnTimeoutKeeps, AnReadKeeps, AnWaitKeeps, AnLoopKeeps, AnKilledKeeps, AnPreflightKeeps, AnJudgeKeeps
  <2> QED
    BY <2>1, <2>2, <2>3 DEF AnNext
<1> QED
  BY <1>1, AnStarts, AnInvEarned, PTL DEF AnSpec

(***************************************************************************)
(* WorkerPool.                                                             *)
(***************************************************************************)

PoolLines == Calls \cup {NoCall, Closing, Stray, ErrorLine}
PoolWorkerRows ==
    [state : {"spawned", "ready", "dead"}, request : Calls \cup {NoCall, Closing},
     out : Seq(PoolLines), output : {"none", "pinned", "other"}]
PoolCallRows ==
    [state : {"idle", "waiting", "sending", "reading", "done", "failed"},
     worker : Workers \cup {Nobody}, answer : Calls \cup {NoCall}]

PoolTypeOK ==
    /\ pool \in Seq(Workers)
    /\ worker \in [Workers -> PoolWorkerRows]
    /\ call \in [Calls -> PoolCallRows]
    /\ poolState \in {"starting", "open", "taking", "closing", "closed", "disposed"}

Lent(c) == call[c].state \in {"sending", "reading"}

\* A worker is at rest in one place of the pool, or lent to one call.
PoolPlaces ==
    /\ \A i, j \in 1 .. Len(pool) : pool[i] = pool[j] => i = j
    /\ \A c \in Calls : Lent(c) => call[c].worker \in Workers /\ \A i \in 1 .. Len(pool) : pool[i] # call[c].worker
    /\ \A c, d \in Calls : Lent(c) /\ Lent(d) /\ call[c].worker = call[d].worker => c = d
    /\ \A w \in Workers : (\E i \in 1 .. Len(pool) : pool[i] = w) \/ (\E c \in Calls : Lent(c) /\ call[c].worker = w)

PoolInv ==
    /\ PoolTypeOK
    /\ \A c \in Calls : call[c].state = "done" => call[c].answer = c
    /\ poolState # "open" => \A c \in Calls : Finished(c)
    /\ poolState = "open" => PoolPlaces
    /\ poolState \in {"closed", "disposed"} => \A w \in Workers : ~Alive(w)

\* SetToSeq gives a sequence that holds each worker once.
LEMMA SetToSeqFacts ==
    ASSUME NEW S, IsFiniteSet(S)
    PROVE  /\ SetToSeq(S) \in Seq(S)
           /\ \A i, j \in 1 .. Len(SetToSeq(S)) : SetToSeq(S)[i] = SetToSeq(S)[j] => i = j
           /\ \A w \in S : \E i \in 1 .. Len(SetToSeq(S)) : SetToSeq(S)[i] = w
<1> DEFINE n == Cardinality(S)
           s == SetToSeq(S)
<1>1. n \in Nat /\ ExistsBijection(1 .. n, S)
  BY FS_CardinalityType
<1>2. \E f \in [1 .. n -> S] : IsInjective(f)
  BY <1>1 DEF ExistsBijection, Bijection, Injection, IsInjective
<1>3. s \in [1 .. n -> S] /\ IsInjective(s)
  BY <1>2 DEF SetToSeq
<1>4. s \in Seq(S) /\ Len(s) = n
  BY <1>1, <1>3
<1>5. IsFiniteSet(1 .. n) /\ Cardinality(1 .. n) = n
  BY <1>1, FS_Interval
<1>6. s \in Injection(1 .. n, S)
  BY <1>3 DEF Injection, IsInjective
<1>7. s \in Surjection(1 .. n, S)
  BY <1>5, <1>6, FS_Injection
<1> QED
  BY <1>3, <1>4, <1>7 DEF IsInjective, Surjection

\* At an open pool the properties' counts are those of PoolPlaces.
LEMMA PoolCounts ==
    ASSUME PoolTypeOK, PoolPlaces, NEW w \in Workers
    PROVE  Cardinality({i \in DOMAIN pool : pool[i] = w})
             + Cardinality({c \in Calls : call[c].worker = w /\ call[c].state \in {"sending", "reading"}}) = 1
<1> DEFINE A == {i \in DOMAIN pool : pool[i] = w}
           B == {c \in Calls : call[c].worker = w /\ call[c].state \in {"sending", "reading"}}
<1>0. DOMAIN pool = 1 .. Len(pool)
  BY DEF PoolTypeOK
<1>1. CASE \E i \in 1 .. Len(pool) : pool[i] = w
  <2>1. PICK i \in 1 .. Len(pool) : pool[i] = w
    BY <1>1
  <2>2. A = {i}
    BY <1>0, <2>1 DEF PoolPlaces
  <2>3. B = {}
    BY <2>1 DEF PoolPlaces, Lent
  <2>4. Cardinality(A) = 1 /\ Cardinality(B) = 0
    BY <2>2, <2>3, FS_EmptySet, FS_Singleton
  <2> QED
    BY <2>4
<1>2. CASE ~\E i \in 1 .. Len(pool) : pool[i] = w
  <2>1. PICK c \in Calls : Lent(c) /\ call[c].worker = w
    BY <1>2 DEF PoolPlaces
  <2>2. A = {}
    BY <1>0, <1>2
  <2>3. B = {c}
    BY <2>1 DEF PoolPlaces, Lent
  <2>4. Cardinality(A) = 0 /\ Cardinality(B) = 1
    BY <2>2, <2>3, FS_EmptySet, FS_Singleton
  <2> QED
    BY <2>4
<1> QED
  BY <1>1, <1>2

LEMMA PoolInvServes == PoolInv => PoolServes
<1> SUFFICES ASSUME PoolInv PROVE PoolServes
  OBVIOUS
<1>1. PoolSound
  BY PoolCounts DEF PoolInv, PoolSound
<1>2. PoolNoCallStranded
  BY DEF PoolInv, PoolNoCallStranded, PoolTypeOK
<1> QED
  BY <1>1, <1>2 DEF PoolServes

LEMMA PoolInitHolds == PoolInit => PoolInv
<1> SUFFICES ASSUME PoolInit PROVE PoolInv
  OBVIOUS
<1> QED
  BY DEF PoolInit, PoolInv, PoolTypeOK, PoolCallRows, PoolWorkerRows, Finished

\* Only a worker's own record changes: what its process does, and the probes.
LEMMA PoolWorkersKeep ==
    ASSUME PoolInv, NEW w \in Workers, PoolProbe(w) \/ WorkerAnswers(w) \/ WorkerPrints(w) \/ WorkerDies(w)
    PROVE  PoolInv'
<1>1. UNCHANGED <<pool, call, poolState>>
  BY DEF PoolProbe, WorkerAnswers, WorkerPrints, WorkerDies
<1>2. worker' \in [Workers -> PoolWorkerRows]
  <2>0. worker \in [Workers -> PoolWorkerRows] /\ worker[w] \in PoolWorkerRows
    BY DEF PoolInv, PoolTypeOK
  <2>00. /\ worker[w].out \in Seq(PoolLines) /\ worker[w].request \in PoolLines
         /\ worker[w].state \in {"spawned", "ready", "dead"}
    BY <2>0 DEF PoolWorkerRows, PoolLines
  <2>1. CASE PoolProbe(w)
    <3>1. CASE worker' = [worker EXCEPT ![w].state = "ready", ![w].output = "pinned"]
      BY <2>0, <3>1 DEF PoolWorkerRows
    <3>2. CASE worker' = [worker EXCEPT ![w].state = "ready", ![w].output = "other"]
      BY <2>0, <3>2 DEF PoolWorkerRows
    <3>3. CASE worker' = [worker EXCEPT ![w].state = "dead"]
      BY <2>0, <3>3 DEF PoolWorkerRows
    <3> QED
      BY <2>1, <3>1, <3>2, <3>3 DEF PoolProbe
  <2>2. CASE WorkerAnswers(w)
    <3> DEFINE out == Append(worker[w].out, worker[w].request)
               after == IF worker[w].request = Closing THEN "dead" ELSE worker[w].state
    <3>1. out \in Seq(PoolLines)
      BY <2>00
    <3>2. after \in {"spawned", "ready", "dead"}
      BY <2>00
    <3>3. worker' = [worker EXCEPT ![w].out = out, ![w].request = NoCall, ![w].state = after]
      BY <2>2 DEF WorkerAnswers
    <3> HIDE DEF out, after
    <3> QED
      BY <2>0, <3>1, <3>2, <3>3 DEF PoolWorkerRows
  <2>3. CASE WorkerPrints(w)
    <3> DEFINE out == Append(worker[w].out, Stray)
    <3>1. out \in Seq(PoolLines)
      BY <2>00 DEF PoolLines
    <3>2. worker' = [worker EXCEPT ![w].out = out]
      BY <2>3 DEF WorkerPrints
    <3> HIDE DEF out
    <3> QED
      BY <2>0, <3>1, <3>2 DEF PoolWorkerRows
  <2>4. CASE WorkerDies(w)
    <3>1. PICK last \in {<<>>, <<ErrorLine>>} :
             worker' = [worker EXCEPT ![w].state = "dead", ![w].request = NoCall, ![w].out = @ \o last]
      BY <2>4 DEF WorkerDies
    <3> DEFINE out == worker[w].out \o last
    <3>2. ErrorLine \in PoolLines
      BY DEF PoolLines
    <3>3. out \in Seq(PoolLines)
      <4>1. CASE last = <<>>
        BY <2>00, <4>1
      <4>2. CASE last = <<ErrorLine>>
        <5> HIDE DEF ErrorLine
        <5> QED
          BY <2>00, <3>2, <4>2
      <4> QED
        BY <4>1, <4>2
    <3>4. worker' = [worker EXCEPT ![w].state = "dead", ![w].request = NoCall, ![w].out = out]
      BY <3>1
    <3> HIDE DEF out
    <3> QED
      BY <2>0, <3>3, <3>4 DEF PoolWorkerRows
  <2> QED
    BY <2>1, <2>2, <2>3, <2>4
<1>3. poolState \in {"closed", "disposed"} => worker' = worker
  <2> SUFFICES ASSUME poolState \in {"closed", "disposed"} PROVE FALSE
    OBVIOUS
  <2>1. ~Alive(w) /\ poolState # "starting"
    BY DEF PoolInv
  <2> QED
    BY <2>1 DEF PoolProbe, WorkerAnswers, WorkerPrints, WorkerDies, Alive
<1>4. PoolTypeOK'
  BY <1>1, <1>2 DEF PoolInv, PoolTypeOK
<1>5. (\A c \in Calls : call[c].state = "done" => call[c].answer = c)'
      /\ (poolState # "open" => \A c \in Calls : Finished(c))'
      /\ (poolState = "open" => PoolPlaces)'
  BY <1>1 DEF PoolInv, Finished, PoolPlaces, Lent
<1> QED
  BY <1>1, <1>3, <1>4, <1>5 DEF PoolInv, Alive

LEMMA PoolStartedKeeps ==
    ASSUME PoolInv, PoolStarted
    PROVE  PoolInv'
<1>1. UNCHANGED <<call, poolFaults>> /\ \A c \in Calls : Finished(c)
  BY DEF PoolStarted, PoolInv
<1>2. CASE \A w \in Workers : worker[w].state = "ready" /\ worker[w].output = "pinned"
  <2>1. pool' = SetToSeq(Workers) /\ poolState' = "open" /\ worker' = worker
    BY <1>2 DEF PoolStarted
  <2>2. PoolTypeOK'
    BY <1>1, <2>1, SetToSeqFacts, PoolAssumption DEF PoolInv, PoolTypeOK
  <2>3. PoolPlaces'
    <3>1. \A c \in Calls : ~Lent(c)'
      BY <1>1 DEF Finished, Lent
    <3> QED
      BY <2>1, <3>1, SetToSeqFacts, PoolAssumption DEF PoolPlaces
  <2> QED
    BY <1>1, <2>1, <2>2, <2>3 DEF PoolInv
<1>3. CASE ~\A w \in Workers : worker[w].state = "ready" /\ worker[w].output = "pinned"
  <2>1. pool' = pool /\ poolState' = "disposed" /\ worker' = Disposed
    BY <1>3 DEF PoolStarted
  <2> QED
    BY <1>1, <2>1 DEF PoolInv, PoolTypeOK, PoolCallRows, PoolWorkerRows, Disposed, Alive, Finished
<1> QED
  BY <1>2, <1>3

LEMMA PoolEnterKeeps ==
    ASSUME PoolInv, NEW c \in Calls, PoolEnter(c)
    PROVE  PoolInv'
<1>1. UNCHANGED <<pool, worker, poolState, poolFaults>> /\ poolState = "open" /\ call[c].state = "idle"
      /\ call' = [call EXCEPT ![c].state = "waiting"]
  BY DEF PoolEnter
<1>2. PoolTypeOK'
  BY <1>1 DEF PoolInv, PoolTypeOK, PoolCallRows, PoolWorkerRows
<1>3. \A d \in Calls : Lent(d)' <=> Lent(d)
  BY <1>1 DEF PoolInv, PoolTypeOK, Lent
<1>4. \A d \in Calls : call'[d].worker = call[d].worker
  BY <1>1 DEF PoolInv, PoolTypeOK
<1>5. PoolPlaces'
  BY <1>1, <1>3, <1>4 DEF PoolInv, PoolPlaces
<1> QED
  BY <1>1, <1>2, <1>5 DEF PoolInv, PoolTypeOK

LEMMA PoolTakeKeeps ==
    ASSUME PoolInv, NEW c \in Calls, PoolTake(c)
    PROVE  PoolInv'
<1> DEFINE h == Head(pool)
<1>1. UNCHANGED <<worker, poolState, poolFaults>> /\ call[c].state = "waiting" /\ pool # <<>> /\ pool' = Tail(pool)
      /\ call' = [call EXCEPT ![c].state = "sending", ![c].worker = h]
  BY DEF PoolTake
<1>2. poolState = "open"
  BY <1>1 DEF PoolInv, Finished
<1>3. /\ Len(pool) \in Nat \ {0} /\ h = pool[1] /\ h \in Workers
      /\ Tail(pool) \in Seq(Workers) /\ Len(Tail(pool)) = Len(pool) - 1
      /\ \A i \in 1 .. Len(pool) - 1 : Tail(pool)[i] = pool[i + 1]
  BY <1>1 DEF PoolInv, PoolTypeOK
<1>31. Len(pool') = Len(pool) - 1 /\ \A i \in 1 .. Len(pool') : i + 1 \in 1 .. Len(pool) /\ i + 1 # 1 /\ pool'[i] = pool[i + 1]
  BY <1>1, <1>3
<1>32. 1 \in 1 .. Len(pool)
  BY <1>3
<1> HIDE DEF h
<1>4. PoolTypeOK'
  <2>1. call' \in [Calls -> PoolCallRows]
    <3>1. call \in [Calls -> PoolCallRows] /\ call[c] \in PoolCallRows /\ h \in Workers \cup {Nobody}
      BY <1>3 DEF PoolInv, PoolTypeOK
    <3> DEFINE row == [call[c] EXCEPT !.state = "sending", !.worker = h]
    <3>2. row \in PoolCallRows
      BY <3>1 DEF PoolCallRows
    <3>3. call' = [call EXCEPT ![c] = row]
      BY <1>1, <3>1
    <3> HIDE DEF row
    <3> QED
      BY <3>1, <3>2, <3>3
  <2> QED
    BY <1>1, <1>3, <2>1 DEF PoolInv, PoolTypeOK
<1>5. /\ Lent(c)' /\ call'[c].worker = h /\ ~Lent(c)
      /\ \A d \in Calls \ {c} : (Lent(d)' <=> Lent(d)) /\ call'[d].worker = call[d].worker
  BY <1>1 DEF PoolInv, PoolTypeOK, Lent
<1>6. PoolPlaces'
  <2>1. \A i, j \in 1 .. Len(pool') : pool'[i] = pool'[j] => i = j
    BY <1>1, <1>2, <1>3 DEF PoolInv, PoolPlaces
  <2>2. \A d \in Calls : Lent(d)' => call'[d].worker \in Workers /\ \A i \in 1 .. Len(pool') : pool'[i] # call'[d].worker
    <3> SUFFICES ASSUME NEW d \in Calls, Lent(d)'
                 PROVE  call'[d].worker \in Workers /\ \A i \in 1 .. Len(pool') : pool'[i] # call'[d].worker
      OBVIOUS
    <3>1. CASE d = c
      <4>1. \A i \in 1 .. Len(pool') : pool'[i] # h
        BY <1>2, <1>3, <1>31, <1>32 DEF PoolInv, PoolPlaces
      <4> QED
        BY <1>3, <1>5, <3>1, <4>1
    <3>2. CASE d # c
      <4>1. Lent(d) /\ call'[d].worker = call[d].worker
        BY <1>5, <3>2
      <4>2. call[d].worker \in Workers /\ \A i \in 1 .. Len(pool) : pool[i] # call[d].worker
        BY <1>2, <4>1 DEF PoolInv, PoolPlaces
      <4> QED
        BY <1>31, <4>1, <4>2
    <3> QED
      BY <3>1, <3>2
  <2>3. \A d, e \in Calls : Lent(d)' /\ Lent(e)' /\ call'[d].worker = call'[e].worker => d = e
    <3>1. 1 \in 1 .. Len(pool)
      BY <1>3
    <3>2. \A d \in Calls \ {c} : Lent(d)' => Lent(d) /\ call'[d].worker = call[d].worker /\ call[d].worker # h
      BY <1>2, <1>3, <1>5, <3>1 DEF PoolInv, PoolPlaces
    <3> QED
      BY <1>2, <1>5, <3>2 DEF PoolInv, PoolPlaces
  <2>4. \A w \in Workers : (\E i \in 1 .. Len(pool') : pool'[i] = w) \/ (\E d \in Calls : Lent(d)' /\ call'[d].worker = w)
    <3> SUFFICES ASSUME NEW w \in Workers, w # h, NEW i \in 1 .. Len(pool), pool[i] = w
                 PROVE  \E k \in 1 .. Len(pool') : pool'[k] = w
      BY <1>2, <1>5 DEF PoolInv, PoolPlaces
    <3>1. i # 1 /\ i - 1 \in 1 .. Len(pool') /\ pool'[i - 1] = w
      BY <1>1, <1>3
    <3> QED
      BY <3>1
  <2> QED
    BY <2>1, <2>2, <2>3, <2>4 DEF PoolPlaces
<1> QED
  BY <1>1, <1>2, <1>4, <1>6 DEF PoolInv, PoolTypeOK

\* A call that ends gives its worker back.
LEMMA PoolBack ==
    ASSUME PoolInv, NEW c \in Calls, Lent(c), GivesBack(c), ~Lent(c)',
           \A d \in Calls : call'[d].worker = call[d].worker,
           \A d \in Calls \ {c} : Lent(d)' <=> Lent(d)
    PROVE  poolState = "open" /\ PoolPlaces' /\ pool' \in Seq(Workers)
<1> DEFINE w == call[c].worker
<1>1. poolState = "open"
  BY DEF PoolInv, Finished, Lent
<1>2. w \in Workers
  BY <1>1 DEF PoolInv, PoolPlaces
<1>3. /\ Len(pool) \in Nat /\ pool' \in Seq(Workers) /\ Len(pool') = Len(pool) + 1 /\ pool'[Len(pool) + 1] = w
      /\ \A i \in 1 .. Len(pool) : pool'[i] = pool[i]
  BY <1>2 DEF PoolInv, PoolTypeOK, GivesBack
<1>4. \A i \in 1 .. Len(pool) : pool[i] # w
  BY <1>1 DEF PoolInv, PoolPlaces
<1>5. \A i \in 1 .. Len(pool') : i = Len(pool) + 1 \/ i \in 1 .. Len(pool)
  BY <1>3
<1> DEFINE last == Len(pool) + 1
<1>6. last \in 1 .. Len(pool') /\ pool'[last] = w
  BY <1>3
<1>7. \A i, j \in 1 .. Len(pool') : pool'[i] = pool'[j] => i = j
  BY <1>1, <1>3, <1>4, <1>5 DEF PoolInv, PoolPlaces
<1>8. \A d \in Calls : Lent(d)' => Lent(d) /\ d # c
  OBVIOUS
<1>9. \A d \in Calls : Lent(d)' => call'[d].worker \in Workers /\ \A i \in 1 .. Len(pool') : pool'[i] # call'[d].worker
  <2> SUFFICES ASSUME NEW d \in Calls, Lent(d)', NEW i \in 1 .. Len(pool')
               PROVE  call[d].worker \in Workers /\ pool'[i] # call[d].worker
    BY <1>3
  <2>1. call[d].worker # w /\ call[d].worker \in Workers
    BY <1>1, <1>8 DEF PoolInv, PoolPlaces
  <2>2. \A k \in 1 .. Len(pool) : pool[k] # call[d].worker
    BY <1>1, <1>8 DEF PoolInv, PoolPlaces
  <2> QED
    BY <1>3, <1>5, <2>1, <2>2
<1>10. \A d, e \in Calls : Lent(d)' /\ Lent(e)' /\ call'[d].worker = call'[e].worker => d = e
  BY <1>1, <1>8 DEF PoolInv, PoolPlaces
<1>11. \A v \in Workers : (\E i \in 1 .. Len(pool') : pool'[i] = v) \/ (\E d \in Calls : Lent(d)' /\ call'[d].worker = v)
  <2> SUFFICES ASSUME NEW v \in Workers
               PROVE  (\E i \in 1 .. Len(pool') : pool'[i] = v) \/ (\E d \in Calls : Lent(d)' /\ call'[d].worker = v)
    OBVIOUS
  <2>1. CASE \E i \in 1 .. Len(pool) : pool[i] = v
    <3>1. PICK i \in 1 .. Len(pool) : pool[i] = v
      BY <2>1
    <3>2. i \in 1 .. Len(pool') /\ pool'[i] = v
      BY <1>3, <3>1
    <3> QED
      BY <3>2
  <2>2. CASE \E d \in Calls : Lent(d) /\ call[d].worker = v
    BY <1>6, <2>2
  <2> QED
    BY <1>1, <2>1, <2>2 DEF PoolInv, PoolPlaces
<1> QED
  BY <1>1, <1>3, <1>7, <1>9, <1>10, <1>11 DEF PoolPlaces

LEMMA PoolSendKeeps ==
    ASSUME PoolInv, NEW c \in Calls, PoolSend(c)
    PROVE  PoolInv'
<1> DEFINE w == call[c].worker
<1>1. UNCHANGED <<poolState, poolFaults>> /\ call[c].state = "sending" /\ Lent(c) /\ poolState = "open"
  BY DEF PoolSend, PoolInv, Finished, Lent
<1>2. w \in Workers
  BY <1>1 DEF PoolInv, PoolPlaces
<1>3. CASE Alive(w)
  <2>1. pool' = pool /\ call' = [call EXCEPT ![c].state = "reading"] /\ worker' = [worker EXCEPT ![w].request = c]
    BY <1>3 DEF PoolSend
  <2>2. PoolTypeOK'
    <3>1. call' \in [Calls -> PoolCallRows]
      BY <2>1 DEF PoolInv, PoolTypeOK, PoolCallRows
    <3>2. worker' \in [Workers -> PoolWorkerRows]
      BY <1>2, <2>1 DEF PoolInv, PoolTypeOK, PoolWorkerRows
    <3> QED
      BY <1>1, <2>1, <3>1, <3>2 DEF PoolInv, PoolTypeOK
  <2>3. \A d \in Calls : (Lent(d)' <=> Lent(d)) /\ call'[d].worker = call[d].worker
    BY <1>1, <2>1 DEF PoolInv, PoolTypeOK, Lent
  <2>4. PoolPlaces'
    BY <1>1, <2>1, <2>3 DEF PoolInv, PoolPlaces
  <2> QED
    BY <1>1, <2>1, <2>2, <2>4 DEF PoolInv, PoolTypeOK
<1>4. CASE ~Alive(w)
  <2>1. GivesBack(c) /\ call' = [call EXCEPT ![c].state = "failed"] /\ worker' = worker
    BY <1>4 DEF PoolSend
  <2>2. ~Lent(c)' /\ \A d \in Calls : call'[d].worker = call[d].worker /\ (d # c => (Lent(d)' <=> Lent(d)))
    BY <1>1, <2>1 DEF PoolInv, PoolTypeOK, Lent
  <2>3. PoolPlaces' /\ pool' \in Seq(Workers)
    BY <1>1, <2>1, <2>2, PoolBack
  <2>4. PoolTypeOK'
    BY <1>1, <2>1, <2>3 DEF PoolInv, PoolTypeOK, PoolCallRows, PoolWorkerRows
  <2> QED
    BY <1>1, <2>1, <2>3, <2>4 DEF PoolInv, PoolTypeOK
<1> QED
  BY <1>3, <1>4

LEMMA PoolReceiveKeeps ==
    ASSUME PoolInv, NEW c \in Calls, PoolReceive(c)
    PROVE  PoolInv'
<1> DEFINE w == call[c].worker
           line == Head(worker[w].out)
<1>1. UNCHANGED <<poolState, poolFaults>> /\ call[c].state = "reading" /\ Lent(c) /\ poolState = "open" /\ GivesBack(c)
  BY DEF PoolReceive, PoolInv, Finished, Lent
<1>2. w \in Workers
  BY <1>1 DEF PoolInv, PoolPlaces
<1>3. \E state \in {"done", "failed"}, answer \in Calls \cup {NoCall} :
         /\ call' = [call EXCEPT ![c].state = state, ![c].answer = answer]
         /\ state = "done" => answer = c
  <2>1. CASE /\ worker[w].out # <<>>
             /\ call' = [call EXCEPT ![c].state = IF Accepted(c, line) THEN "done" ELSE "failed",
                                  ![c].answer = IF Accepted(c, line) THEN line ELSE NoCall]
    <3>1. CASE Accepted(c, line)
      <4>1. call' = [call EXCEPT ![c].state = "done", ![c].answer = c]
        BY <2>1, <3>1 DEF Accepted
      <4> QED
        BY <4>1
    <3>2. CASE ~Accepted(c, line)
      <4>1. call' = [call EXCEPT ![c].state = "failed", ![c].answer = NoCall]
        BY <2>1, <3>2
      <4> QED
        BY <4>1
    <3> QED
      BY <3>1, <3>2
  <2>2. CASE call' = [call EXCEPT ![c].state = "failed"]
    <3>1. call' = [call EXCEPT ![c].state = "failed", ![c].answer = call[c].answer] /\ call[c].answer \in Calls \cup {NoCall}
      BY <2>2 DEF PoolInv, PoolTypeOK, PoolCallRows, PoolWorkerRows
    <3> QED
      BY <3>1
  <2> QED
    BY <2>1, <2>2 DEF PoolReceive
<1>4. worker' \in [Workers -> PoolWorkerRows]
  <2>1. CASE worker[w].out # <<>> /\ worker' = [worker EXCEPT ![w].out = Tail(@)]
    <3>1. worker \in [Workers -> PoolWorkerRows] /\ worker[w] \in PoolWorkerRows
      BY <1>2 DEF PoolInv, PoolTypeOK
    <3> DEFINE out == Tail(worker[w].out)
    <3>2. worker[w].out \in Seq(PoolLines)
      BY <3>1 DEF PoolWorkerRows
    <3>3. out \in Seq(PoolLines)
      BY <2>1, <3>2
    <3>4. worker' = [worker EXCEPT ![w].out = out]
      BY <2>1
    <3> HIDE DEF out
    <3> QED
      BY <3>1, <3>3, <3>4 DEF PoolWorkerRows
  <2>2. CASE worker' = worker
    BY <2>2 DEF PoolInv, PoolTypeOK
  <2> QED
    BY <2>1, <2>2 DEF PoolReceive
<1>5. PICK state \in {"done", "failed"}, answer \in Calls \cup {NoCall} :
         /\ call' = [call EXCEPT ![c].state = state, ![c].answer = answer]
         /\ state = "done" => answer = c
  BY <1>3
<1>6. ~Lent(c)' /\ \A d \in Calls : call'[d].worker = call[d].worker /\ (d # c => (Lent(d)' <=> Lent(d)))
  BY <1>1, <1>5 DEF PoolInv, PoolTypeOK, Lent
<1>7. PoolPlaces' /\ pool' \in Seq(Workers)
  BY <1>1, <1>6, PoolBack
<1>8. PoolTypeOK'
  <2>1. call \in [Calls -> PoolCallRows] /\ call[c] \in PoolCallRows
    BY DEF PoolInv, PoolTypeOK
  <2> DEFINE row == [call[c] EXCEPT !.state = state, !.answer = answer]
  <2>2. row \in PoolCallRows
    BY <1>5, <2>1 DEF PoolCallRows
  <2>3. call' = [call EXCEPT ![c] = row]
    BY <1>5, <2>1
  <2> HIDE DEF row
  <2>4. call' \in [Calls -> PoolCallRows]
    BY <2>1, <2>2, <2>3
  <2> QED
    BY <1>1, <1>4, <1>7, <2>4 DEF PoolInv, PoolTypeOK
<1>9. (\A d \in Calls : call[d].state = "done" => call[d].answer = d)'
  BY <1>5 DEF PoolInv, PoolTypeOK
<1> QED
  BY <1>1, <1>7, <1>8, <1>9 DEF PoolInv

LEMMA PoolCloseKeeps ==
    ASSUME PoolInv, PoolClose \/ PoolTakeAll \/ PoolClosed
    PROVE  PoolInv'
<1>1. UNCHANGED <<call, poolFaults>> /\ (\A c \in Calls : Finished(c)) /\ poolState' \notin {"open", "starting"}
  BY DEF PoolClose, PoolTakeAll, PoolClosed, PoolInv, Joined
<1>2. PoolTypeOK'
  <2>1. CASE PoolClose
    BY <2>1 DEF PoolClose, PoolInv, PoolTypeOK
  <2>2. CASE PoolTakeAll
    <3>1. pool' = <<>> /\ pool' \in Seq(Workers)
      BY <2>2 DEF PoolTakeAll
    <3> QED
      BY <2>2, <3>1 DEF PoolTakeAll, PoolInv, PoolTypeOK, PoolCallRows, PoolWorkerRows
  <2>3. CASE PoolClosed
    BY <2>3 DEF PoolClosed, PoolInv, PoolTypeOK, PoolCallRows, PoolWorkerRows, Disposed
  <2> QED
    BY <2>1, <2>2, <2>3
<1>3. (poolState \in {"closed", "disposed"} => \A w \in Workers : ~Alive(w))'
  <2>1. CASE PoolClosed
    BY <2>1 DEF PoolClosed, PoolInv, PoolTypeOK, PoolCallRows, PoolWorkerRows, Disposed, Alive
  <2> QED
    BY <2>1 DEF PoolClose, PoolTakeAll
<1> QED
  BY <1>1, <1>2, <1>3 DEF PoolInv, Finished

\* The pool of workers serves each call with its own text, lends a worker to one
\* call at a time and loses none, and leaves no process and no call behind, for
\* any number of workers, calls and faults (LLMLingua2Compressor).
THEOREM PoolAlwaysServes == PoolSpec => []PoolServes
<1>1. PoolInv /\ [PoolNext]_poolVars => PoolInv'
  <2> SUFFICES ASSUME PoolInv, [PoolNext]_poolVars PROVE PoolInv'
    OBVIOUS
  <2>1. CASE UNCHANGED poolVars
    BY <2>1 DEF poolVars, PoolInv, PoolTypeOK, PoolPlaces, Lent, Finished, Alive
  <2>2. CASE PoolNext
    BY <2>2, PoolWorkersKeep, PoolStartedKeeps, PoolEnterKeeps, PoolTakeKeeps, PoolSendKeeps, PoolReceiveKeeps,
       PoolCloseKeeps DEF PoolNext
  <2> QED
    BY <2>1, <2>2
<1> QED
  BY <1>1, PoolInitHolds, PoolInvServes, PTL DEF PoolSpec

(***************************************************************************)
(* VerifierReplay.                                                         *)
(***************************************************************************)

RvLeft == RvResults \cup {NoResult}
LayerValues == {"image", "copied", "changed", "absent", "socket"}
Founds == UNION {[S -> LayerValues] : S \in SUBSET RvPaths}
Views ==
    [next : {"diff", "top", "archive", "mounts", "read"}, listed : SUBSET RvPaths, deleted : SUBSET RvImagePaths,
     processes : 0 .. 1, found : Founds, mount : RvLeft]
Manifests ==
    [status : {"complete", "incomplete"}, phase : {"before_verifier", "teardown"}, state : Views,
     replay : {"none", "incomplete", "complete", "mismatch"}, restored : BOOLEAN, same : BOOLEAN]
RvPlaces ==
    {"up", "capture", "teardown", "copy", "restore", "compare", "repeat", "judge", "put_back", "stopped", "dead"}
Lives == [pc : RvPlaces, tests : BOOLEAN, replayed : BOOLEAN, pending : BOOLEAN, directory : BOOLEAN]
Seens ==
    [begun : BOOLEAN, first : Layers \X RvLeft \X (0 .. 1), same : BOOLEAN, late : BOOLEAN, original : RvLeft,
     repeated : RvLeft, touched : SUBSET {"original", "repeated"}]

RvTypeOK ==
    /\ layer \in Layers /\ results \in RvLeft /\ running \in 0 .. 1
    /\ life \in Lives /\ view \in Views
    /\ held \in Manifests \cup {NoManifest} /\ bundle \in Manifests \cup {NoManifest}
    /\ saved \in [original : RvLeft, repeated : RvLeft]
    /\ seen \in Seens

\* There is a manifest from the first command after the tests on.
RvManifestThere ==
    /\ held = NoManifest <=> bundle = NoManifest
    /\ seen.begun \/ life.replayed => held # NoManifest
    /\ life.replayed => seen.begun
    /\ life.pending => life.replayed
    /\ life.pc \in {"capture", "teardown"} => held = NoManifest
    /\ life.pc = "capture" \/ (life.pc = "up" /\ held # NoManifest) => life.tests
    /\ life.pc \in {"copy", "restore", "compare", "repeat", "judge", "put_back"} => life.replayed

ViewOf(fs, mount, n) ==
    [next |-> "read", listed |-> Reported(fs), deleted |-> Deleted(fs), processes |-> n,
     found |-> [p \in Reported(fs) |-> fs[p]], mount |-> mount]

\* What has been read is still so, the manifest is of the state in which the
\* first verifier's commands begin, and the repeated ones begin in it.
RvViewTrue ==
    /\ ~seen.late /\ life.pc \in {"capture", "compare"} =>
          /\ view.next # "diff" => view.listed = Reported(layer) /\ view.deleted = Deleted(layer)
          /\ view.next \notin {"diff", "top"} => view.processes = running
          /\ view.next \in {"mounts", "read"} => view.found = [p \in Reported(layer) |-> layer[p]]
          /\ view.next = "read" => view.mount = results
    /\ ~seen.late /\ held # NoManifest /\ held.status = "complete" =>
          /\ life.pc = "up" /\ ~seen.begun => held.state = ViewOf(layer, results, running)
          /\ seen.begun => held.state = ViewOf(seen.first[1], seen.first[2], seen.first[3])
    /\ life.pc = "repeat" /\ ~seen.late => <<layer, results, running>> = seen.first

\* The first verifier's results are in the mount, or kept until they are put back.
RvOriginalKept ==
    "original" \notin seen.touched =>
        /\ life.pc \in {"up", "copy"} /\ life.replayed => results = seen.original
        /\ life.pc \in {"restore", "compare", "repeat", "judge", "put_back"} => saved.original = seen.original
        /\ life.pc = "stopped" /\ life.replayed =>
              results = seen.original \/ (bundle.replay # "complete" /\ saved.original = seen.original)

RvRepeated == (seen.same \/ seen.late) /\ (seen.touched # {} \/ seen.original = seen.repeated)
\* A replay is complete only after a verifier that began in that state.
RvReplayEarned ==
    /\ held # NoManifest /\ life.pc \notin {"put_back", "stopped", "dead"} => held.replay # "complete"
    /\ life.pc = "judge" => (seen.same \/ seen.late) /\ ("repeated" \notin seen.touched => results = seen.repeated)
    /\ life.pc = "put_back" /\ held.replay = "complete" => RvRepeated
    /\ bundle # NoManifest /\ bundle.replay = "complete" => life.pc = "stopped" /\ RvRepeated
    /\ life.pc = "compare" => held # NoManifest /\ held.status = "complete"

RvInv == RvTypeOK /\ RvManifestThere /\ RvViewTrue /\ RvOriginalKept /\ RvReplayEarned

LEMMA RvInvGenuine == RvInv => RvReplayIsGenuine
<1> SUFFICES ASSUME RvInv PROVE RvReplayIsGenuine
  OBVIOUS
<1>1. ReplayAccepted => RvRepeated
  BY DEF RvInv, RvReplayEarned, ReplayAccepted
<1>2. ReplayAccepted => bundle.replay = "complete"
  BY DEF ReplayAccepted
<1>3. RvOriginalKept
  BY DEF RvInv
<1> QED
  BY <1>1, <1>2, <1>3 DEF RvOriginalKept, RvRepeated, RvReplayIsGenuine

\* What two layers show is the same only when they are: a path of the image
\* that is neither listed nor deleted has the image's content, another one is
\* not there.
LEMMA ViewTells ==
    ASSUME NEW one \in Layers, NEW other \in Layers, NEW m, NEW n, NEW k, NEW l,
           ViewOf(one, m, n) = ViewOf(other, k, l)
    PROVE  one = other /\ m = k /\ n = l
<1>1. /\ [p \in Reported(one) |-> one[p]] = [p \in Reported(other) |-> other[p]]
      /\ Reported(one) = Reported(other) /\ Deleted(one) = Deleted(other) /\ m = k /\ n = l
  BY DEF ViewOf
<1>2. \A p \in Reported(one) : one[p] = other[p]
  BY <1>1
<1>3. one \in [RvPaths -> LayerValues] /\ other \in [RvPaths -> LayerValues]
  BY DEF Layers, LayerValues
<1>4. \A p \in RvPaths : one[p] = other[p]
  <2> SUFFICES ASSUME NEW p \in RvPaths PROVE one[p] = other[p]
    OBVIOUS
  <2>1. CASE p \in Reported(one)
    BY <1>2, <2>1
  <2>2. CASE p \notin Reported(one) /\ p \in RvImagePaths
    <3>1. one[p] \in {"image", "absent"} /\ other[p] \in {"image", "absent"}
      BY <1>1, <2>2 DEF Layers, Written, Reported
    <3>2. p \in Deleted(one) <=> p \in Deleted(other)
      BY <1>1
    <3> QED
      BY <2>2, <3>1, <3>2 DEF Deleted
  <2>3. CASE p \notin Reported(one) /\ p \notin RvImagePaths
    <3>1. one[p] = "absent" /\ other[p] = "absent"
      BY <1>1, <2>3 DEF Layers, Written, Reported
    <3> QED
      BY <3>1
  <2> QED
    BY <2>1, <2>2, <2>3
<1> QED
  BY <1>1, <1>3, <1>4

LEMMA RvInitHolds == RvInit => RvInv
<1> SUFFICES ASSUME RvInit PROVE RvInv
  OBVIOUS
<1>1. layer \in Layers
  BY DEF RvInit, Layers, Written, RvPaths
<1>2. NoView \in Views
  <2>1. [p \in {} |-> "absent"] \in Founds
    <3>1. [p \in {} |-> "absent"] \in [{} -> LayerValues]
      OBVIOUS
    <3> QED
      BY <3>1 DEF Founds
  <2> QED
    BY <2>1 DEF NoView, Views, RvLeft
<1>3. seen \in Seens /\ ~seen.begun /\ ~seen.late
  BY <1>1 DEF RvInit, Seens, RvLeft
<1>4. RvTypeOK
  BY <1>1, <1>2, <1>3 DEF RvInit, RvTypeOK, RvLeft, RvPlaces, Lives
<1> QED
  BY <1>3, <1>4 DEF RvInit, RvInv, RvManifestThere, RvViewTrue, RvOriginalKept, RvReplayEarned, NoManifest

\* A write to one path leaves a layer.
LEMMA WrittenLayer ==
    ASSUME layer \in Layers, NEW p \in RvPaths, NEW v \in Written(p), layer' = [layer EXCEPT ![p] = v]
    PROVE  layer' \in Layers
  BY DEF Layers, Written

LEMMA CommandLayer ==
    ASSUME RvTypeOK, Command
    PROVE  layer' \in Layers /\ running' \in 0 .. 1
  BY WrittenLayer DEF Command, RvTypeOK

LEMMA NoViewTyped == NoView \in Views
<1>1. [p \in {} |-> "absent"] \in [{} -> LayerValues]
  OBVIOUS
<1>2. [p \in {} |-> "absent"] \in Founds
  BY <1>1 DEF Founds
<1> QED
  BY <1>2 DEF NoView, Views, RvLeft

LEMMA RvUploadKeeps ==
    ASSUME RvInv, RvUploadTests
    PROVE  RvInv'
<1>1. life' = [life EXCEPT !.tests = TRUE] /\ UNCHANGED <<layer, results, running, view, held, bundle, saved, seen>>
  BY DEF RvUploadTests
<1>2. life' \in Lives /\ life'.pc = life.pc /\ life'.replayed = life.replayed /\ life'.pending = life.pending
  BY <1>1 DEF RvInv, RvTypeOK, Lives
<1> QED
  BY <1>1, <1>2 DEF RvInv, RvTypeOK, RvManifestThere, RvViewTrue, RvOriginalKept, RvReplayEarned, RvRepeated

LEMMA RvCaptureKeeps ==
    ASSUME RvInv, RvCapture
    PROVE  RvInv'
<1>1. life.pc = "up" /\ life.tests /\ held = NoManifest /\ view' = NoView /\ UNCHANGED <<layer, results, running, held, bundle, saved, seen>>
  BY DEF RvCapture, CaptureDue
<1>2. life' \in {life, [life EXCEPT !.pc = "capture", !.directory = TRUE], [life EXCEPT !.directory = TRUE]}
  BY DEF RvCapture
<1>3. life' \in Lives /\ life'.pc \in {"up", "capture"} /\ life'.replayed = life.replayed /\ life'.pending = life.pending
      /\ life'.tests = life.tests
  BY <1>1, <1>2 DEF RvInv, RvTypeOK, Lives, RvPlaces
<1>4. view'.next = "diff" /\ view' \in Views
  BY <1>1, NoViewTyped DEF NoView
<1> QED
  BY <1>1, <1>3, <1>4 DEF RvInv, RvTypeOK, RvManifestThere, RvViewTrue, RvOriginalKept, RvReplayEarned

\* Each read sees what is there, and what was read before is still so.
LEMMA RvReadKeeps ==
    ASSUME RvInv, RvRead
    PROVE  RvInv'
<1>1. UNCHANGED <<layer, results, running, life, held, bundle, saved, seen>> /\ ReadNext /\ view \in Views /\ layer \in Layers
  BY DEF RvRead, RvInv, RvTypeOK
<1>2. Reported(layer) \in SUBSET RvPaths /\ Deleted(layer) \in SUBSET RvImagePaths /\ running \in 0 .. 1 /\ results \in RvLeft
  BY DEF Reported, Deleted, RvInv, RvTypeOK
<1>3. [p \in view.listed |-> layer[p]] \in Founds
  <2>1. view.listed \in SUBSET RvPaths
    BY <1>1 DEF Views
  <2>2. layer \in [RvPaths -> LayerValues]
    BY <1>1 DEF Layers, LayerValues
  <2>3. [p \in view.listed |-> layer[p]] \in [view.listed -> LayerValues]
    BY <2>1, <2>2
  <2> QED
    BY <2>1, <2>3 DEF Founds
<1> DEFINE Shown(v) ==
        /\ v.next # "diff" => v.listed = Reported(layer) /\ v.deleted = Deleted(layer)
        /\ v.next \notin {"diff", "top"} => v.processes = running
        /\ v.next \in {"mounts", "read"} => v.found = [p \in Reported(layer) |-> layer[p]]
        /\ v.next = "read" => v.mount = results
<1>4. view' \in Views /\ (Shown(view) => Shown(view'))
  <2>1. CASE view.next = "diff" /\ view' = [view EXCEPT !.next = "top", !.listed = Reported(layer), !.deleted = Deleted(layer)]
    BY <1>1, <1>2, <2>1 DEF Views
  <2>2. CASE view.next = "top" /\ view' = [view EXCEPT !.next = "archive", !.processes = running]
    BY <1>1, <1>2, <2>2 DEF Views
  <2>3. CASE view.next = "archive" /\ view' = [view EXCEPT !.next = "mounts", !.found = [p \in view.listed |-> layer[p]]]
    <3> DEFINE new == [p \in view.listed |-> layer[p]]
    <3>1. view' = [view EXCEPT !.next = "mounts", !.found = new] /\ new \in Founds
      BY <1>3, <2>3
    <3>2. Shown(view) => new = [p \in Reported(layer) |-> layer[p]]
      BY <2>3
    <3> HIDE DEF new
    <3>3. view' \in Views /\ view'.next = "mounts" /\ view'.found = new /\ view'.listed = view.listed
          /\ view'.deleted = view.deleted /\ view'.processes = view.processes
      BY <1>1, <3>1 DEF Views
    <3> QED
      BY <2>3, <3>2, <3>3
  <2>4. CASE view.next = "mounts" /\ view' = [view EXCEPT !.next = "read", !.mount = results]
    BY <1>1, <1>2, <2>4 DEF Views
  <2> QED
    BY <1>1, <2>1, <2>2, <2>3, <2>4 DEF ReadNext
<1>5. RvTypeOK'
  BY <1>1, <1>4 DEF RvInv, RvTypeOK
<1>6. ~seen.late /\ life.pc \in {"capture", "compare"} => Shown(view')
  <2>1. ~seen.late /\ life.pc \in {"capture", "compare"} => Shown(view)
    BY DEF RvInv, RvViewTrue
  <2> QED
    BY <1>4, <2>1
<1>7. RvViewTrue'
  <2>1. Reported(layer)' = Reported(layer) /\ Deleted(layer)' = Deleted(layer)
    BY <1>1 DEF Reported, Deleted
  <2>2. ViewOf(layer, results, running)' = ViewOf(layer, results, running)
    BY <1>1, <2>1 DEF ViewOf
  <2>3. ViewOf(seen.first[1], seen.first[2], seen.first[3])' = ViewOf(seen.first[1], seen.first[2], seen.first[3])
    BY <1>1 DEF ViewOf, Reported, Deleted
  <2> HIDE DEF Shown
  <2>4. RvViewTrue
    BY DEF RvInv
  <2>5. ~seen.late /\ life.pc \in {"capture", "compare"} =>
          /\ view'.next # "diff" => view'.listed = Reported(layer) /\ view'.deleted = Deleted(layer)
          /\ view'.next \notin {"diff", "top"} => view'.processes = running
          /\ view'.next \in {"mounts", "read"} => view'.found = [p \in Reported(layer) |-> layer[p]]
          /\ view'.next = "read" => view'.mount = results
    BY <1>6 DEF Shown
  <2> QED
    BY <1>1, <2>1, <2>2, <2>3, <2>4, <2>5 DEF RvViewTrue
<1>8. RvManifestThere' /\ RvOriginalKept' /\ RvReplayEarned'
  BY <1>1 DEF RvInv, RvManifestThere, RvOriginalKept, RvReplayEarned, RvRepeated
<1> QED
  BY <1>5, <1>7, <1>8 DEF RvInv

\* What was read whole and undisturbed is the view of the present state.
LEMMA ViewComplete ==
    ASSUME RvInv, ~seen.late, life.pc \in {"capture", "compare"}, view.next = "read"
    PROVE  view = ViewOf(layer, results, running)
<1>1. /\ view.listed = Reported(layer) /\ view.deleted = Deleted(layer) /\ view.processes = running
      /\ view.found = [p \in Reported(layer) |-> layer[p]] /\ view.mount = results
  BY DEF RvInv, RvViewTrue
<1>2. view = [next |-> view.next, listed |-> view.listed, deleted |-> view.deleted, processes |-> view.processes,
              found |-> view.found, mount |-> view.mount]
  BY DEF RvInv, RvTypeOK, Views
<1> QED
  BY <1>1, <1>2 DEF ViewOf

LEMMA RvKeepKeeps ==
    ASSUME RvInv, RvKeep
    PROVE  RvInv'
<1>1. /\ life.pc \in {"capture", "teardown"} /\ bundle' = held' /\ held = NoManifest /\ bundle = NoManifest
      /\ UNCHANGED <<layer, results, running, view, saved, seen>> /\ ~seen.begun /\ ~life.replayed /\ ~life.pending
  BY DEF RvKeep, RvInv, RvManifestThere
<1>2. PICK status \in {"complete", "incomplete"} :
         /\ status = "complete" => view.next = "read"
         /\ held' = [status |-> status, phase |-> IF life.pc = "capture" THEN "before_verifier" ELSE "teardown",
                     state |-> view, replay |-> "none", restored |-> FALSE, same |-> FALSE]
  BY DEF RvKeep
<1>3. held' \in Manifests /\ held'.replay = "none" /\ held'.status = status /\ held'.state = view
  <2> DEFINE phase == IF life.pc = "capture" THEN "before_verifier" ELSE "teardown"
  <2>1. phase \in {"before_verifier", "teardown"}
    OBVIOUS
  <2>2. held' = [status |-> status, phase |-> phase, state |-> view, replay |-> "none", restored |-> FALSE, same |-> FALSE]
    BY <1>2
  <2> HIDE DEF phase
  <2> QED
    BY <2>1, <2>2 DEF RvInv, RvTypeOK, Manifests
<1>4. held' # NoManifest
  BY <1>3 DEF Manifests, NoManifest
<1>5. /\ life' \in Lives /\ life'.replayed = life.replayed /\ life'.pending = life.pending /\ life'.tests = life.tests
      /\ life'.pc = IF life.pc = "capture" THEN "up" ELSE "stopped"
  BY <1>1 DEF RvKeep, RvInv, RvTypeOK, Lives, RvPlaces
<1>6. RvTypeOK'
  BY <1>1, <1>3, <1>5 DEF RvInv, RvTypeOK
<1>7. RvViewTrue'
  <2>1. ASSUME ~seen.late, life'.pc = "up", held'.status = "complete" PROVE held'.state = ViewOf(layer, results, running)
    BY <1>1, <1>2, <1>3, <1>5, <2>1, ViewComplete
  <2>2. ViewOf(layer, results, running)' = ViewOf(layer, results, running)
    BY <1>1 DEF ViewOf, Reported, Deleted
  <2> QED
    BY <1>1, <1>5, <2>1, <2>2 DEF RvViewTrue
<1>8. RvManifestThere' /\ RvOriginalKept' /\ RvReplayEarned'
  BY <1>1, <1>3, <1>4, <1>5 DEF RvInv, RvManifestThere, RvOriginalKept, RvReplayEarned
<1> QED
  BY <1>6, <1>7, <1>8 DEF RvInv

LEMMA RvExecKeeps ==
    ASSUME RvInv, NEW verifier \in BOOLEAN, NEW raises \in BOOLEAN, NEW result \in RvResults,
           RvExec(verifier, result, raises)
    PROVE  RvInv'
<1> DEFINE now == <<layer, results, running>>
           left == IF verifier THEN [seen EXCEPT !.original = result, !.touched = @ \ {"original"}] ELSE seen
           first == life.tests /\ ~seen.begun
<1>1. /\ life.pc = "up" /\ ~CaptureDue /\ Command /\ UNCHANGED <<view, held, bundle, saved>> /\ (verifier => life.tests)
      /\ results' = IF verifier THEN result ELSE results
      /\ (life' = life \/ (verifier /\ life.tests /\ life' = [life EXCEPT !.replayed = TRUE, !.pending = TRUE]))
      /\ seen' = IF first THEN [left EXCEPT !.begun = TRUE, !.first = now] ELSE left
  BY DEF RvExec
<1>2. life.tests => held # NoManifest
  BY <1>1 DEF CaptureDue
<1>3. layer' \in Layers /\ running' \in 0 .. 1 /\ results' \in RvLeft
  BY <1>1, CommandLayer DEF RvInv, RvTypeOK, RvLeft
<1>4. life' \in Lives /\ life'.pc = "up" /\ (life'.replayed => life.replayed \/ (verifier /\ life.tests))
      /\ (life'.pending => life.pending \/ life'.replayed) /\ life'.tests = life.tests
      /\ (life.replayed => life'.replayed)
  BY <1>1 DEF RvInv, RvTypeOK, Lives
<1>5. /\ left \in Seens /\ left.begun = seen.begun /\ left.first = seen.first /\ left.late = seen.late
      /\ left.original = IF verifier THEN result ELSE seen.original
      /\ ("original" \notin left.touched => verifier \/ "original" \notin seen.touched)
      /\ left.touched \subseteq seen.touched
  BY DEF RvInv, RvTypeOK, Seens, RvLeft
<1>6. now \in Layers \X RvLeft \X (0 .. 1) /\ now[1] = layer /\ now[2] = results /\ now[3] = running
  BY DEF RvInv, RvTypeOK
<1> HIDE DEF now, left
<1>7. /\ seen' \in Seens /\ seen'.late = seen.late /\ seen'.original = left.original /\ seen'.touched = left.touched
      /\ (seen'.begun <=> seen.begun \/ life.tests)
      /\ seen'.first = IF first THEN now ELSE seen.first
  BY <1>1, <1>5, <1>6 DEF Seens
<1>8. RvTypeOK'
  BY <1>1, <1>3, <1>4, <1>7 DEF RvInv, RvTypeOK
<1>9. RvManifestThere'
  BY <1>1, <1>2, <1>4, <1>7 DEF RvInv, RvManifestThere
<1>10. RvViewTrue'
  <2> SUFFICES ASSUME ~seen.late, held # NoManifest, held.status = "complete", seen'.begun
               PROVE  held.state = ViewOf(seen.first[1], seen.first[2], seen.first[3])'
    <3>1. held # NoManifest => seen'.begun
      BY <1>1, <1>7 DEF RvInv, RvManifestThere
    <3> QED
      BY <1>1, <1>4, <1>7, <3>1 DEF RvViewTrue
  <2>1. ViewOf(seen.first[1], seen.first[2], seen.first[3])' = ViewOf(seen'.first[1], seen'.first[2], seen'.first[3])
    BY DEF ViewOf, Reported, Deleted
  <2>2. CASE first
    <3>1. held.state = ViewOf(layer, results, running)
      BY <1>1, <2>2 DEF RvInv, RvViewTrue
    <3> QED
      BY <1>6, <1>7, <2>1, <2>2, <3>1
  <2>3. CASE ~first
    <3>1. seen.begun /\ held.state = ViewOf(seen.first[1], seen.first[2], seen.first[3])
      BY <1>7, <2>3 DEF RvInv, RvViewTrue
    <3> QED
      BY <1>7, <2>1, <2>3, <3>1
  <2> QED
    BY <2>2, <2>3
<1>11. RvOriginalKept'
  <2>1. verifier => results' = seen'.original
    BY <1>1, <1>5, <1>7
  <2>2. ~verifier => results' = results /\ seen'.original = seen.original /\ life'.replayed = life.replayed
    BY <1>1, <1>5, <1>7
  <2> QED
    BY <1>1, <1>4, <1>5, <1>7, <2>1, <2>2 DEF RvInv, RvOriginalKept
<1>12. RvReplayEarned'
  BY <1>1, <1>4 DEF RvInv, RvReplayEarned
<1> QED
  BY <1>8, <1>9, <1>10, <1>11, <1>12 DEF RvInv

LEMMA RvDisturbKeeps ==
    ASSUME RvInv, RvDisturb
    PROVE  RvInv'
<1>1. life.pc # "dead" /\ UNCHANGED <<life, view, held, bundle, saved>>
      /\ seen' = [seen EXCEPT !.late = @ \/ BeforeVerifier, !.touched = @ \cup IF results' = results THEN {} ELSE AfterVerifier]
  BY DEF RvDisturb
<1>2. layer' \in Layers /\ results' \in RvLeft /\ running' \in 0 .. 1
  <2>1. CASE \E p \in RvPaths : \E v \in Written(p) : layer' = [layer EXCEPT ![p] = v] /\ UNCHANGED <<results, running>>
    BY <2>1, WrittenLayer DEF RvInv, RvTypeOK
  <2>2. CASE results' \in RvResults \cup {NoResult} /\ UNCHANGED <<layer, running>>
    BY <2>2 DEF RvInv, RvTypeOK, RvLeft
  <2>3. CASE running' = 0 /\ UNCHANGED <<layer, results>>
    BY <2>3 DEF RvInv, RvTypeOK
  <2> QED
    BY <2>1, <2>2, <2>3 DEF RvDisturb
<1> DEFINE late == seen.late \/ BeforeVerifier
           touched == seen.touched \cup IF results' = results THEN {} ELSE AfterVerifier
<1>3. late \in BOOLEAN /\ touched \in SUBSET {"original", "repeated"} /\ seen.touched \subseteq touched
  BY DEF BeforeVerifier, AfterVerifier, RvInv, RvTypeOK, Seens
<1>4. seen' = [seen EXCEPT !.late = late, !.touched = touched]
  BY <1>1
<1>5. ~late => ~seen.late /\ life.pc \notin {"capture", "compare", "repeat"} /\ ~(life.pc = "up" /\ held # NoManifest /\ ~seen.begun)
  BY DEF BeforeVerifier, RvInv, RvTypeOK, Seens
<1>6. life.pc \in {"up", "copy", "stopped"} /\ "original" \notin touched => results' = results
  BY DEF AfterVerifier
<1>7. life.pc = "judge" /\ "repeated" \notin touched => results' = results
  BY DEF AfterVerifier
<1> HIDE DEF late, touched
<1>8. /\ seen' \in Seens /\ seen'.late = late /\ seen'.touched = touched /\ seen'.begun = seen.begun /\ seen'.first = seen.first
      /\ seen'.same = seen.same /\ seen'.original = seen.original /\ seen'.repeated = seen.repeated
  BY <1>3, <1>4 DEF RvInv, RvTypeOK, Seens
<1>9. RvTypeOK'
  BY <1>1, <1>2, <1>8 DEF RvInv, RvTypeOK
<1>10. RvManifestThere'
  BY <1>1, <1>8 DEF RvInv, RvManifestThere
<1>11. RvViewTrue'
  <2>1. ViewOf(seen.first[1], seen.first[2], seen.first[3])' = ViewOf(seen.first[1], seen.first[2], seen.first[3])
    BY <1>8 DEF ViewOf, Reported, Deleted
  <2> QED
    BY <1>1, <1>5, <1>8, <2>1 DEF RvInv, RvViewTrue
<1>12. seen.late => seen'.late
  BY <1>8 DEF late
<1>13. RvRepeated => RvRepeated'
  BY <1>3, <1>8, <1>12 DEF RvRepeated
<1>14. RvOriginalKept'
  BY <1>1, <1>3, <1>6, <1>8 DEF RvInv, RvOriginalKept
<1>15. RvReplayEarned'
  BY <1>1, <1>3, <1>7, <1>8, <1>12, <1>13 DEF RvInv, RvReplayEarned
<1> QED
  BY <1>9, <1>10, <1>11, <1>14, <1>15 DEF RvInv

LEMMA RvStopKeeps ==
    ASSUME RvInv, RvStop
    PROVE  RvInv'
<1>1. life.pc = "up" /\ UNCHANGED <<layer, results, running, held, bundle, saved, seen>>
  BY DEF RvStop
<1>2. CASE life.pending /\ life' = [life EXCEPT !.pc = "copy", !.pending = FALSE] /\ UNCHANGED view
  <2>1. life' \in Lives /\ life'.pc = "copy" /\ ~life'.pending /\ life'.replayed = life.replayed
    BY <1>2 DEF RvInv, RvTypeOK, Lives, RvPlaces
  <2>2. life.replayed
    BY <1>2 DEF RvInv, RvManifestThere
  <2>3. RvViewTrue'
    <3>1. ViewOf(seen.first[1], seen.first[2], seen.first[3])' = ViewOf(seen.first[1], seen.first[2], seen.first[3])
      BY <1>1 DEF ViewOf, Reported, Deleted
    <3> QED
      BY <1>1, <2>1, <3>1 DEF RvInv, RvViewTrue
  <2> QED
    BY <1>1, <1>2, <2>1, <2>2, <2>3 DEF RvInv, RvTypeOK, RvManifestThere, RvOriginalKept, RvReplayEarned
<1>3. CASE ~life.pending /\ bundle = NoManifest /\ view' = NoView /\ life' = [life EXCEPT !.pc = "teardown", !.directory = TRUE]
  <2>1. life' \in Lives /\ life'.pc = "teardown" /\ ~life'.pending /\ life'.replayed = life.replayed
    BY <1>3 DEF RvInv, RvTypeOK, Lives, RvPlaces
  <2>2. held = NoManifest /\ ~life.replayed /\ ~seen.begun /\ view' \in Views
    BY <1>3, NoViewTyped DEF RvInv, RvManifestThere
  <2>3. RvViewTrue'
    BY <1>1, <2>1, <2>2 DEF RvViewTrue
  <2> QED
    BY <1>1, <1>3, <2>1, <2>2, <2>3 DEF RvInv, RvTypeOK, RvManifestThere, RvOriginalKept, RvReplayEarned
<1>4. CASE ~life.pending /\ view' \in {view, NoView} /\ life' = [life EXCEPT !.pc = "stopped"]
  <2>1. life' \in Lives /\ life'.pc = "stopped" /\ ~life'.pending /\ life'.replayed = life.replayed
    BY <1>4 DEF RvInv, RvTypeOK, Lives, RvPlaces
  <2>2. view' \in Views
    BY <1>4, NoViewTyped DEF RvInv, RvTypeOK
  <2>3. RvViewTrue'
    <3>1. ViewOf(seen.first[1], seen.first[2], seen.first[3])' = ViewOf(seen.first[1], seen.first[2], seen.first[3])
      BY <1>1 DEF ViewOf, Reported, Deleted
    <3> QED
      BY <1>1, <2>1, <3>1 DEF RvInv, RvViewTrue
  <2> QED
    BY <1>1, <2>1, <2>2, <2>3 DEF RvInv, RvTypeOK, RvManifestThere, RvOriginalKept, RvReplayEarned, RvRepeated
<1> QED
  BY <1>2, <1>3, <1>4 DEF RvStop

\* Steps that end or move on with all that was seen and kept as it is.
LEMMA FirstSame ==
    ASSUME UNCHANGED seen
    PROVE  ViewOf(seen.first[1], seen.first[2], seen.first[3])' = ViewOf(seen.first[1], seen.first[2], seen.first[3])
  BY DEF ViewOf, Reported, Deleted

LEMMA RvDownKeeps ==
    ASSUME RvInv, RvDown
    PROVE  RvInv'
<1>1. life.pc = "stopped" /\ running' = 0 /\ UNCHANGED <<layer, results, life, view, held, bundle, saved, seen>>
  BY DEF RvDown
<1>2. RvViewTrue'
  BY <1>1, FirstSame DEF RvInv, RvViewTrue
<1> QED
  BY <1>1, <1>2 DEF RvInv, RvTypeOK, RvManifestThere, RvOriginalKept, RvReplayEarned, RvRepeated

LEMMA RvCopyKeeps ==
    ASSUME RvInv, RvCopy
    PROVE  RvInv'
<1>1. life.pc = "copy" /\ UNCHANGED <<layer, results, running, view, held, bundle, seen>> /\ life.replayed
  BY DEF RvCopy, RvInv, RvManifestThere
<1>2. CASE life' = [life EXCEPT !.pc = "restore"] /\ saved' = [saved EXCEPT !.original = results]
  <2>1. life' \in Lives /\ life'.pc = "restore" /\ life'.replayed /\ life'.pending = life.pending
    BY <1>1, <1>2 DEF RvInv, RvTypeOK, Lives, RvPlaces
  <2>2. saved' \in [original : RvLeft, repeated : RvLeft] /\ saved'.original = results
    BY <1>2 DEF RvInv, RvTypeOK
  <2>3. RvViewTrue'
    BY <1>1, <2>1, FirstSame DEF RvInv, RvViewTrue
  <2>4. RvTypeOK' /\ RvManifestThere'
    BY <1>1, <2>1, <2>2 DEF RvInv, RvTypeOK, RvManifestThere
  <2> QED
    BY <1>1, <2>1, <2>2, <2>3, <2>4 DEF RvInv, RvOriginalKept, RvReplayEarned
<1>3. CASE life' = [life EXCEPT !.pc = "stopped"] /\ UNCHANGED saved
  <2>1. life' \in Lives /\ life'.pc = "stopped" /\ life'.replayed /\ life'.pending = life.pending
    BY <1>1, <1>3 DEF RvInv, RvTypeOK, Lives, RvPlaces
  <2>2. RvViewTrue'
    BY <1>1, <2>1, FirstSame DEF RvInv, RvViewTrue
  <2> QED
    BY <1>1, <1>3, <2>1, <2>2 DEF RvInv, RvTypeOK, RvManifestThere, RvOriginalKept, RvReplayEarned
<1> QED
  BY <1>2, <1>3 DEF RvCopy

LEMMA RvRestoreKeeps ==
    ASSUME RvInv, RvRestore
    PROVE  RvInv'
<1>1. life.pc = "restore" /\ UNCHANGED <<running, bundle, saved, seen>> /\ life.replayed /\ seen.begun
  BY DEF RvRestore, RvInv, RvManifestThere
<1>2. held \in Manifests /\ held # NoManifest /\ held.replay # "complete" /\ held.state.mount \in RvLeft
  <2>1. held \in Manifests /\ held # NoManifest /\ held.replay # "complete"
    BY <1>1 DEF RvInv, RvTypeOK, RvManifestThere, RvReplayEarned
  <2>2. held.state \in Views
    BY <2>1 DEF Manifests
  <2> QED
    BY <2>1, <2>2 DEF Views
<1>3. CASE /\ CanRestore
           /\ \E fs \in Layers : Restored(fs) /\ layer' = fs
           /\ results' = held.state.mount
           /\ life' = [life EXCEPT !.pc = "compare"] /\ held' = held /\ view' = NoView
  <2>1. life' \in Lives /\ life'.pc = "compare" /\ life'.replayed = life.replayed /\ life'.pending = life.pending
    BY <1>3 DEF RvInv, RvTypeOK, Lives, RvPlaces
  <2>2. layer' \in Layers /\ results' \in RvLeft /\ view' \in Views /\ view'.next = "diff"
    BY <1>2, <1>3, NoViewTyped DEF NoView
  <2>3. RvTypeOK' /\ RvManifestThere'
    BY <1>1, <1>3, <2>1, <2>2 DEF RvInv, RvTypeOK, RvManifestThere
  <2>4. RvViewTrue'
    BY <1>1, <1>3, <2>1, <2>2, FirstSame DEF RvInv, RvViewTrue
  <2>5. held.status = "complete"
    BY <1>3 DEF CanRestore
  <2> QED
    BY <1>1, <1>2, <1>3, <2>1, <2>3, <2>4, <2>5 DEF RvInv, RvOriginalKept, RvReplayEarned
<1>4. CASE /\ IF CanRestore THEN \E fs \in Layers : HalfRestored(fs) /\ layer' = fs ELSE UNCHANGED layer
           /\ results' \in IF CanRestore THEN {results, NoResult, held.state.mount} ELSE {results}
           /\ life' = [life EXCEPT !.pc = "put_back"]
           /\ held' = [held EXCEPT !.replay = "incomplete"] /\ UNCHANGED view
  <2>1. life' \in Lives /\ life'.pc = "put_back" /\ life'.replayed = life.replayed /\ life'.pending = life.pending
    BY <1>4 DEF RvInv, RvTypeOK, Lives, RvPlaces
  <2>2. layer' \in Layers
    BY <1>4 DEF RvInv, RvTypeOK
  <2>3. results' \in RvLeft
    BY <1>2, <1>4 DEF RvInv, RvTypeOK, RvLeft
  <2>4. held' \in Manifests /\ held'.replay = "incomplete" /\ held'.state = held.state /\ held'.status = held.status
    BY <1>2, <1>4 DEF Manifests
  <2>5. held' # NoManifest
    BY <2>4 DEF Manifests, NoManifest
  <2>6. RvTypeOK' /\ RvManifestThere'
    BY <1>1, <1>2, <1>4, <2>1, <2>2, <2>3, <2>4, <2>5 DEF RvInv, RvTypeOK, RvManifestThere
  <2>7. RvViewTrue'
    BY <1>1, <1>2, <2>1, <2>4, FirstSame DEF RvInv, RvViewTrue
  <2> QED
    BY <1>1, <2>1, <2>4, <2>6, <2>7 DEF RvInv, RvOriginalKept, RvReplayEarned
<1> QED
  BY <1>3, <1>4 DEF RvRestore

\* The comparison passes only in the state that was kept, unless a process was
\* at work.
LEMMA RvCompareKeeps ==
    ASSUME RvInv, RvCompare
    PROVE  RvInv'
<1>1. life.pc = "compare" /\ UNCHANGED <<layer, results, running, view, bundle, saved, seen>> /\ life.replayed /\ seen.begun
  BY DEF RvCompare, RvInv, RvManifestThere
<1>2. held \in Manifests /\ held # NoManifest /\ held.status = "complete" /\ held.replay # "complete"
  BY <1>1 DEF RvInv, RvTypeOK, RvReplayEarned
<1>3. ASSUME NEW restored \in BOOLEAN, NEW to \in {"repeat", "put_back"},
             to = "repeat" => view.next = "read" /\ StateRestored,
             held' = [held EXCEPT !.restored = restored, !.replay = "incomplete"], life' = [life EXCEPT !.pc = to]
      PROVE  RvInv'
  <2>1. held' \in Manifests /\ held'.replay = "incomplete" /\ held'.state = held.state /\ held'.status = held.status
    BY <1>2, <1>3 DEF Manifests
  <2>2. held' # NoManifest
    BY <2>1 DEF Manifests, NoManifest
  <2>3. life' \in Lives /\ life'.pc = to /\ life'.replayed = life.replayed /\ life'.pending = life.pending
    BY <1>3 DEF RvInv, RvTypeOK, Lives, RvPlaces
  <2>4. RvTypeOK' /\ RvManifestThere'
    BY <1>1, <1>2, <2>1, <2>2, <2>3 DEF RvInv, RvTypeOK, RvManifestThere
  <2>5. ASSUME to = "repeat", ~seen.late PROVE <<layer, results, running>> = seen.first
    <3>1. view = ViewOf(layer, results, running) /\ view = held.state
      BY <1>1, <1>3, <2>5, ViewComplete DEF StateRestored
    <3>2. held.state = ViewOf(seen.first[1], seen.first[2], seen.first[3])
      BY <1>1, <1>2, <2>5 DEF RvInv, RvViewTrue
    <3>3. seen.first \in Layers \X RvLeft \X (0 .. 1)
      BY DEF RvInv, RvTypeOK, Seens
    <3>4. seen.first = <<seen.first[1], seen.first[2], seen.first[3]>> /\ seen.first[1] \in Layers
      BY <3>3
    <3>5. layer \in Layers
      BY DEF RvInv, RvTypeOK
    <3>6. ViewOf(layer, results, running) = ViewOf(seen.first[1], seen.first[2], seen.first[3])
      BY <3>1, <3>2
    <3>7. layer = seen.first[1] /\ results = seen.first[2] /\ running = seen.first[3]
      BY <3>4, <3>5, <3>6, ViewTells
    <3> QED
      BY <3>4, <3>7
  <2>6. RvViewTrue'
    BY <1>1, <1>2, <2>1, <2>3, <2>5, FirstSame DEF RvInv, RvViewTrue
  <2> QED
    BY <1>1, <2>1, <2>3, <2>4, <2>6 DEF RvInv, RvOriginalKept, RvReplayEarned
<1>4. CASE /\ view.next = "read"
           /\ held' = [held EXCEPT !.restored = StateRestored, !.replay = "incomplete"]
           /\ life' = [life EXCEPT !.pc = IF StateRestored THEN "repeat" ELSE "put_back"]
  <2>1. StateRestored \in BOOLEAN
    BY DEF StateRestored
  <2> QED
    BY <1>3, <1>4, <2>1
<1>5. CASE held' = [held EXCEPT !.replay = "incomplete"] /\ life' = [life EXCEPT !.pc = "put_back"]
  <2>1. held' = [held EXCEPT !.restored = held.restored, !.replay = "incomplete"] /\ held.restored \in BOOLEAN
    BY <1>2, <1>5 DEF Manifests
  <2> QED
    BY <1>3, <1>5, <2>1
<1> QED
  BY <1>4, <1>5 DEF RvCompare

LEMMA RvRepeatKeeps ==
    ASSUME RvInv, NEW result \in RvResults, RvRepeat(result)
    PROVE  RvInv'
<1> DEFINE same == <<layer, results, running>> = seen.first
<1>1. /\ life.pc = "repeat" /\ Command /\ results' = result /\ UNCHANGED <<view, held, bundle, saved>>
      /\ seen' = [seen EXCEPT !.same = same, !.repeated = result, !.touched = @ \ {"repeated"}]
      /\ life' \in {[life EXCEPT !.pc = "judge"], [life EXCEPT !.pc = "put_back"]}
  BY DEF RvRepeat
<1>2. same \in BOOLEAN /\ (same \/ seen.late)
  BY <1>1 DEF RvInv, RvViewTrue
<1> HIDE DEF same
<1>3. /\ seen' \in Seens /\ seen'.same = same /\ seen'.late = seen.late /\ seen'.begun = seen.begun /\ seen'.first = seen.first
      /\ seen'.original = seen.original /\ seen'.repeated = result /\ seen'.touched = seen.touched \ {"repeated"}
  BY <1>1, <1>2 DEF RvInv, RvTypeOK, Seens, RvLeft
<1>4. life' \in Lives /\ life'.pc \in {"judge", "put_back"} /\ life'.replayed = life.replayed /\ life'.pending = life.pending
  BY <1>1 DEF RvInv, RvTypeOK, Lives, RvPlaces
<1>5. layer' \in Layers /\ running' \in 0 .. 1 /\ results' \in RvLeft
  BY <1>1, CommandLayer DEF RvInv, RvTypeOK, RvLeft
<1>6. RvTypeOK' /\ RvManifestThere'
  BY <1>1, <1>3, <1>4, <1>5 DEF RvInv, RvTypeOK, RvManifestThere
<1>7. RvViewTrue'
  <2>1. ViewOf(seen.first[1], seen.first[2], seen.first[3])' = ViewOf(seen.first[1], seen.first[2], seen.first[3])
    BY <1>3 DEF ViewOf, Reported, Deleted
  <2> QED
    BY <1>1, <1>3, <1>4, <2>1 DEF RvInv, RvViewTrue
<1>8. RvOriginalKept' /\ RvReplayEarned'
  BY <1>1, <1>2, <1>3, <1>4 DEF RvInv, RvOriginalKept, RvReplayEarned, RvManifestThere
<1> QED
  BY <1>6, <1>7, <1>8 DEF RvInv

LEMMA RvJudgeKeeps ==
    ASSUME RvInv, RvJudge
    PROVE  RvInv'
<1>1. life.pc = "judge" /\ life' = [life EXCEPT !.pc = "put_back"]
      /\ UNCHANGED <<layer, results, running, view, bundle, seen>> /\ life.replayed
  BY DEF RvJudge, RvInv, RvManifestThere
<1>2. held \in Manifests /\ held # NoManifest /\ held.replay # "complete"
  BY <1>1 DEF RvInv, RvTypeOK, RvManifestThere, RvReplayEarned
<1>3. life' \in Lives /\ life'.pc = "put_back" /\ life'.replayed = life.replayed /\ life'.pending = life.pending
  BY <1>1 DEF RvInv, RvTypeOK, Lives, RvPlaces
<1>4. CASE /\ saved' = [saved EXCEPT !.repeated = results]
           /\ held' = [held EXCEPT !.same = saved.original = results,
                                   !.replay = IF saved.original = results THEN "complete" ELSE "mismatch"]
  <2> DEFINE same == saved.original = results
             replay == IF saved.original = results THEN "complete" ELSE "mismatch"
  <2>1. held' = [held EXCEPT !.same = same, !.replay = replay]
    BY <1>4
  <2>2. same \in BOOLEAN /\ replay \in {"complete", "mismatch"} /\ (replay = "complete" => saved.original = results)
    OBVIOUS
  <2> HIDE DEF same, replay
  <2>3. held' \in Manifests /\ held'.replay = replay /\ held'.state = held.state /\ held'.status = held.status
    BY <1>2, <2>1, <2>2 DEF Manifests
  <2>4. held' # NoManifest
    BY <2>3 DEF Manifests, NoManifest
  <2>5. saved'.original = saved.original /\ saved' \in [original : RvLeft, repeated : RvLeft]
    BY <1>4 DEF RvInv, RvTypeOK
  <2>6. RvTypeOK' /\ RvManifestThere'
    BY <1>1, <1>2, <1>3, <2>3, <2>4, <2>5 DEF RvInv, RvTypeOK, RvManifestThere
  <2>7. RvViewTrue'
    BY <1>1, <1>2, <1>3, <2>3, FirstSame DEF RvInv, RvViewTrue
  <2>8. replay = "complete" => RvRepeated
    <3>1. (seen.same \/ seen.late) /\ ("repeated" \notin seen.touched => results = seen.repeated)
      BY <1>1 DEF RvInv, RvReplayEarned
    <3>2. "original" \notin seen.touched => saved.original = seen.original
      BY <1>1 DEF RvInv, RvOriginalKept
    <3> QED
      BY <2>2, <3>1, <3>2 DEF RvRepeated
  <2> QED
    BY <1>1, <1>3, <2>3, <2>5, <2>6, <2>7, <2>8 DEF RvInv, RvOriginalKept, RvReplayEarned, RvRepeated
<1>5. CASE UNCHANGED <<saved, held>>
  <2>1. RvViewTrue'
    BY <1>1, <1>3, <1>5, FirstSame DEF RvInv, RvViewTrue
  <2> QED
    BY <1>1, <1>2, <1>3, <1>5, <2>1 DEF RvInv, RvTypeOK, RvManifestThere, RvOriginalKept, RvReplayEarned
<1> QED
  BY <1>4, <1>5 DEF RvJudge

LEMMA RvPutBackKeeps ==
    ASSUME RvInv, RvPutBack
    PROVE  RvInv'
<1>1. life.pc = "put_back" /\ life' = [life EXCEPT !.pc = "stopped"] /\ UNCHANGED <<layer, running, view, saved, seen>>
      /\ life.replayed /\ ("original" \notin seen.touched => saved.original = seen.original)
  BY DEF RvPutBack, RvInv, RvManifestThere, RvOriginalKept
<1>2. held \in Manifests /\ held # NoManifest /\ bundle # NoManifest /\ bundle.replay # "complete"
      /\ (held.replay = "complete" => RvRepeated)
  BY <1>1 DEF RvInv, RvTypeOK, RvManifestThere, RvReplayEarned
<1>3. life' \in Lives /\ life'.pc = "stopped" /\ life'.replayed = life.replayed /\ life'.pending = life.pending
  BY <1>1 DEF RvInv, RvTypeOK, Lives, RvPlaces
<1>4. CASE /\ results' = saved.original
           /\ held' = [held EXCEPT !.status = IF held.replay = "complete" THEN @ ELSE "incomplete"]
           /\ bundle' \in {held', bundle}
  <2> DEFINE status == IF held.replay = "complete" THEN held.status ELSE "incomplete"
  <2>1. held' = [held EXCEPT !.status = status] /\ status \in {"complete", "incomplete"} /\ (status = "complete" => held.status = "complete")
    BY <1>2, <1>4 DEF Manifests
  <2> HIDE DEF status
  <2>2. held' \in Manifests /\ held'.replay = held.replay /\ held'.state = held.state /\ held'.status = status
    BY <1>2, <2>1 DEF Manifests
  <2>3. held' # NoManifest
    BY <2>2 DEF Manifests, NoManifest
  <2>4. results' \in RvLeft /\ bundle' \in Manifests \cup {NoManifest} /\ bundle' # NoManifest
    BY <1>2, <1>4, <2>2, <2>3 DEF RvInv, RvTypeOK
  <2>5. RvTypeOK' /\ RvManifestThere'
    BY <1>1, <1>2, <1>3, <2>2, <2>3, <2>4 DEF RvInv, RvTypeOK, RvManifestThere
  <2>6. RvViewTrue'
    BY <1>1, <1>2, <1>3, <2>1, <2>2, FirstSame DEF RvInv, RvViewTrue
  <2>7. bundle'.replay = "complete" => RvRepeated
    BY <1>2, <1>4, <2>2
  <2> QED
    BY <1>1, <1>3, <1>4, <2>5, <2>6, <2>7 DEF RvInv, RvOriginalKept, RvReplayEarned, RvRepeated
<1>5. CASE results' \in {results, NoResult} /\ UNCHANGED <<held, bundle>>
  <2>1. RvTypeOK' /\ RvManifestThere'
    BY <1>1, <1>2, <1>3, <1>5 DEF RvInv, RvTypeOK, RvManifestThere, RvLeft
  <2>2. RvViewTrue'
    BY <1>1, <1>3, <1>5, FirstSame DEF RvInv, RvViewTrue
  <2> QED
    BY <1>1, <1>2, <1>3, <1>5, <2>1, <2>2 DEF RvInv, RvOriginalKept, RvReplayEarned
<1> QED
  BY <1>4, <1>5 DEF RvPutBack, PutBack

LEMMA RvDiesKeeps ==
    ASSUME RvInv, RvDies
    PROVE  RvInv'
<1>1. life.pc # "stopped" /\ life' = [life EXCEPT !.pc = "dead"]
      /\ UNCHANGED <<layer, results, running, view, held, bundle, saved, seen>>
  BY DEF RvDies
<1>2. life' \in Lives /\ life'.pc = "dead" /\ life'.replayed = life.replayed /\ life'.pending = life.pending
  BY <1>1 DEF RvInv, RvTypeOK, Lives, RvPlaces
<1>3. RvViewTrue'
  BY <1>1, <1>2, FirstSame DEF RvInv, RvViewTrue
<1> QED
  BY <1>1, <1>2, <1>3 DEF RvInv, RvTypeOK, RvManifestThere, RvOriginalKept, RvReplayEarned

\* A replay that the screening accepts began in the state in which the first
\* verifier's commands began and left what they left, unless a process left
\* behind was at work meanwhile; and when the environment has stopped, the first
\* verifier's results are in place or its replay is not accepted and they are
\* kept, for any images, commands and faults (replay_environment.py).
THEOREM RvReplayAlwaysGenuine == RvSpec => []RvReplayIsGenuine
<1>1. RvInv /\ [RvNext]_rvVars => RvInv'
  <2> SUFFICES ASSUME RvInv, [RvNext]_rvVars PROVE RvInv'
    OBVIOUS
  <2>1. CASE UNCHANGED rvVars
    <3>1. ViewOf(layer, results, running)' = ViewOf(layer, results, running) /\ Reported(layer)' = Reported(layer)
          /\ Deleted(layer)' = Deleted(layer)
      BY <2>1 DEF rvVars, ViewOf, Reported, Deleted
    <3>2. RvViewTrue'
      BY <2>1, <3>1, FirstSame DEF rvVars, RvInv, RvViewTrue
    <3> QED
      BY <2>1, <3>2 DEF rvVars, RvInv, RvTypeOK, RvManifestThere, RvOriginalKept, RvReplayEarned, RvRepeated
  <2>2. CASE RvNext
    BY <2>2, RvUploadKeeps, RvCaptureKeeps, RvReadKeeps, RvKeepKeeps, RvExecKeeps, RvDisturbKeeps, RvStopKeeps,
       RvDownKeeps, RvCopyKeeps, RvRestoreKeeps, RvCompareKeeps, RvRepeatKeeps, RvJudgeKeeps, RvPutBackKeeps,
       RvDiesKeeps DEF RvNext
  <2> QED
    BY <2>1, <2>2
<1> QED
  BY <1>1, RvInitHolds, RvInvGenuine, PTL DEF RvSpec

(***************************************************************************)
(* AttemptEvidence.                                                        *)
(***************************************************************************)

AeHttpRows == [state : {"open", "usage", "no_usage", "rejected"}, billed : 0 .. AeEstimate, late : BOOLEAN]
AeCostRows == [known : BOOLEAN, late : BOOLEAN, cost : Nat]
AeReplays == [phase : {"missing", "before_verifier", "teardown"}, status : {"none", "complete", "mismatch", "incomplete"}]
AeExclusions == {"none", "rejected", "safety_stop", "session_exit"}
AeOutcomes ==
    Scored \cup Safety
    \cup {"setup_error", "image_error", "timeout", "network_error", "provider_error", "verifier_crash",
          "evidence_missing", "replay_mismatch"}
AeRecords ==
    [result : AeOutcomes, provider : Seq(AeCostRows), exclusion : AeExclusions, replay : AeReplays,
     originalError : BOOLEAN,
     evidence : {"pending", "incomplete", "quality_result_complete", "technical_exclusion_complete"}]

AeTypeOK ==
    /\ http \in Seq(AeHttpRows)
    /\ serving \in [failure : Failures \cup {NoFailureYet}, delivered : Nat]
    /\ agent \in [state : {"running", "ok", "guard", "failed"}, turns : Nat,
                  commands : {"settled", "uncertain", "after_exit"},
                  exception : Exceptions \cup {"none", "session_ended"}]
    /\ judged \in Judgements
    /\ replayed \in AeReplays
    /\ read \in [pc : {"not_started", "cost", "failure", "done"}, provider : Seq(AeCostRows), rejected : BOOLEAN,
                 failure : Failures \cup {NoFailureYet}]
    /\ record \in AeRecords \cup {NoRecord}

\* A verifier that did not run left nothing.
AeUnverified == replayed.phase # "before_verifier" => judged = Unjudged

\* What was read of the events covers every attempt made while the agent ran,
\* and what each of them has been billed since.
AeReadCovers ==
    read.pc # "not_started" =>
        /\ agent.state # "running"
        /\ Len(read.provider) <= Len(http)
        /\ \A i \in 1 .. Len(http) : i > Len(read.provider) => http[i].late
        /\ \A i \in 1 .. Len(read.provider) :
              \/ read.provider[i].cost = AeEstimate
              \/ http[i].state # "open" /\ read.provider[i].cost = http[i].billed

\* What the record says is what was read, and what nothing changes any more.
AeRecordStands ==
    record # NoRecord =>
        /\ read.pc = "done" /\ record.provider = read.provider
        /\ record.result \in Scored =>
              /\ \A i \in 1 .. Len(http) : ~http[i].late => http[i].state = "usage"
              /\ agent.state = "ok" /\ agent.commands = "settled" /\ Sound(judged)
              /\ replayed = [phase |-> "before_verifier", status |-> "complete"]
              /\ judged.reward = 1 <=> record.result = "pass"
        /\ record.result \in {"setup_error", "image_error"} => record.provider = <<>>
        /\ record.exclusion # "none" => judged.reward = -1
        /\ record.evidence = "quality_result_complete" => record.result \in Scored

AeInv == AeTypeOK /\ AeUnverified /\ AeReadCovers /\ AeRecordStands

LEMMA AeInvBacked == AeInv => AeScoreIsBacked
<1> SUFFICES ASSUME AeInv PROVE AeScoreIsBacked
  OBVIOUS
<1>0. DOMAIN http = 1 .. Len(http) /\ Len(http) \in Nat /\ AeEstimate \in Nat
  BY AeAssumption DEF AeInv, AeTypeOK
<1>1. CASE record = NoRecord
  BY <1>1 DEF AeScoreIsBacked, NoRecord, Scored
<1>2. CASE record # NoRecord
  <2>1. read.pc = "done" /\ record.provider = read.provider /\ record \in AeRecords
    BY <1>2 DEF AeInv, AeRecordStands, AeTypeOK
  <2>2. read.provider \in Seq(AeCostRows) /\ Len(read.provider) \in Nat /\ DOMAIN read.provider = 1 .. Len(read.provider)
    BY DEF AeInv, AeTypeOK
  <2>3. \A i \in DOMAIN http : ~http[i].late => i \in DOMAIN record.provider /\ record.provider[i].cost >= http[i].billed
    <3> SUFFICES ASSUME NEW i \in 1 .. Len(http), ~http[i].late
                 PROVE  i \in 1 .. Len(read.provider) /\ read.provider[i].cost >= http[i].billed
      BY <1>0, <2>1, <2>2
    <3>1. i \in 1 .. Len(read.provider)
      BY <1>0, <2>1, <2>2 DEF AeInv, AeReadCovers
    <3>2. http[i] \in AeHttpRows
      BY DEF AeInv, AeTypeOK
    <3>3. http[i].billed \in 0 .. AeEstimate
      BY <3>2 DEF AeHttpRows
    <3> QED
      BY <1>0, <2>1, <3>1, <3>3 DEF AeInv, AeReadCovers
  <2>4. record.result \in {"setup_error", "image_error"} => \A i \in DOMAIN http : http[i].late
    <3> SUFFICES ASSUME record.result \in {"setup_error", "image_error"}, NEW i \in 1 .. Len(http)
                 PROVE  http[i].late
      BY <1>0
    <3>1. Len(read.provider) = 0
      BY <1>2, <2>1 DEF AeInv, AeRecordStands
    <3> QED
      BY <2>1, <3>1 DEF AeInv, AeReadCovers
  <2> QED
    BY <1>0, <1>2, <2>1, <2>3, <2>4 DEF AeInv, AeRecordStands, AeScoreIsBacked
<1> QED
  BY <1>1, <1>2

LEMMA AeInitHolds == AeInit => AeInv
<1> SUFFICES ASSUME AeInit PROVE AeInv
  OBVIOUS
<1>1. AeTypeOK
  BY DEF AeInit, AeTypeOK, Unjudged, Judgements, NothingRead, AeReplays
<1> QED
  BY <1>1 DEF AeInit, AeInv, AeUnverified, AeReadCovers, AeRecordStands, NothingRead

\* An attempt that is added after the agent's end is late.
LEMMA AeDispatchKeeps ==
    ASSUME AeInv, AeDispatch
    PROVE  AeInv'
<1> DEFINE late == agent.state # "running"
           row == [state |-> "open", billed |-> 0, late |-> late]
<1>1. http' = Append(http, row) /\ UNCHANGED <<serving, agent, judged, replayed, read, record>>
  BY DEF AeDispatch
<1>2. row \in AeHttpRows /\ row.late = late
  BY AeAssumption DEF AeHttpRows
<1> HIDE DEF row
<1>3. /\ http' \in Seq(AeHttpRows) /\ Len(http) \in Nat /\ Len(http') = Len(http) + 1 /\ http'[Len(http) + 1] = row
      /\ \A i \in 1 .. Len(http) : http'[i] = http[i]
  BY <1>1, <1>2 DEF AeInv, AeTypeOK
<1>4. \A i \in 1 .. Len(http') : i \in 1 .. Len(http) \/ (i = Len(http) + 1 /\ http'[i] = row)
  BY <1>3
<1>5. AeTypeOK'
  BY <1>1, <1>3 DEF AeInv, AeTypeOK
<1>6. Len(read.provider) \in Nat
  BY DEF AeInv, AeTypeOK
<1>7. AeReadCovers'
  <2> SUFFICES ASSUME read.pc # "not_started" PROVE AeReadCovers'
    BY <1>1 DEF AeReadCovers
  <2>1. agent.state # "running" /\ Len(read.provider) <= Len(http)
    BY DEF AeInv, AeReadCovers
  <2>2. \A i \in 1 .. Len(http') : i > Len(read.provider) => http'[i].late
    BY <1>2, <1>3, <1>4, <2>1 DEF AeInv, AeReadCovers
  <2>3. \A i \in 1 .. Len(read.provider) : http'[i] = http[i]
    BY <1>3, <1>6, <2>1
  <2>4. \A i \in 1 .. Len(read.provider) :
           \/ read.provider[i].cost = AeEstimate
           \/ http'[i].state # "open" /\ read.provider[i].cost = http'[i].billed
    BY <2>3 DEF AeInv, AeReadCovers
  <2>5. Len(read.provider) <= Len(http')
    BY <1>3, <1>6, <2>1
  <2> QED
    BY <1>1, <2>1, <2>2, <2>4, <2>5 DEF AeReadCovers
<1>8. record # NoRecord => row.late
  BY <1>2 DEF AeInv, AeReadCovers, AeRecordStands
<1>9. AeRecordStands'
  <2> SUFFICES ASSUME record # NoRecord PROVE AeRecordStands'
    BY <1>1 DEF AeRecordStands
  <2>1. record.result \in Scored => \A i \in 1 .. Len(http') : ~http'[i].late => http'[i].state = "usage"
    BY <1>3, <1>4, <1>8 DEF AeInv, AeRecordStands
  <2> QED
    BY <1>1, <2>1 DEF AeInv, AeRecordStands
<1> QED
  BY <1>1, <1>5, <1>7, <1>9 DEF AeInv, AeUnverified

\* An answer is taken once.
LEMMA AeAnswerKeeps ==
    ASSUME AeInv, NEW i \in 1 .. AeAttempts, NEW state \in {"usage", "no_usage", "rejected"},
           NEW billed \in 0 .. AeEstimate, AeAnswer(i, state, billed)
    PROVE  AeInv'
<1>1. /\ i \in 1 .. Len(http) /\ http[i].state = "open"
      /\ http' = [http EXCEPT ![i].state = state, ![i].billed = billed]
      /\ UNCHANGED <<agent, judged, replayed, read, record>>
  BY DEF AeAnswer, Pending, AeInv, AeTypeOK
<1>2. serving' \in [failure : Failures \cup {NoFailureYet}, delivered : Nat]
  BY DEF AeAnswer, AeInv, AeTypeOK, Failures
<1> DEFINE row == [http[i] EXCEPT !.state = state, !.billed = billed]
<1>3. http[i] \in AeHttpRows
  BY <1>1 DEF AeInv, AeTypeOK
<1>4. row \in AeHttpRows /\ row.state = state /\ row.late = http[i].late
  BY <1>3 DEF AeHttpRows
<1>5. http' = [http EXCEPT ![i] = row]
  BY <1>1, <1>3
<1> HIDE DEF row
<1>6. /\ http' \in Seq(AeHttpRows) /\ Len(http') = Len(http) /\ http'[i] = row
      /\ \A j \in 1 .. Len(http) : j # i => http'[j] = http[j]
  <2>1. http \in [1 .. Len(http) -> AeHttpRows] /\ Len(http) \in Nat
    BY DEF AeInv, AeTypeOK
  <2>2. http' \in [1 .. Len(http) -> AeHttpRows] /\ http'[i] = row /\ \A j \in 1 .. Len(http) : j # i => http'[j] = http[j]
    BY <1>1, <1>4, <1>5, <2>1
  <2> QED
    BY <2>1, <2>2
<1>7. AeTypeOK'
  BY <1>1, <1>2, <1>6 DEF AeInv, AeTypeOK
<1>8. \A j \in 1 .. Len(http) : http'[j].late = http[j].late /\ (http[j].state # "open" => http'[j] = http[j])
  BY <1>1, <1>4, <1>6
<1>9. AeReadCovers'
  <2> SUFFICES ASSUME read.pc # "not_started" PROVE AeReadCovers'
    BY <1>1 DEF AeReadCovers
  <2>1. \A j \in 1 .. Len(read.provider) : j \in 1 .. Len(http)
    BY DEF AeInv, AeReadCovers, AeTypeOK
  <2> QED
    BY <1>1, <1>6, <1>8, <2>1 DEF AeInv, AeReadCovers
<1>10. AeRecordStands'
  <2> SUFFICES ASSUME record # NoRecord PROVE AeRecordStands'
    BY <1>1 DEF AeRecordStands
  <2>1. record.result \in Scored => \A j \in 1 .. Len(http) : ~http'[j].late => http'[j].state = "usage"
    BY <1>8 DEF AeInv, AeRecordStands
  <2> QED
    BY <1>1, <1>6, <2>1 DEF AeInv, AeRecordStands
<1> QED
  BY <1>1, <1>7, <1>9, <1>10 DEF AeInv, AeUnverified

LEMMA AeServingKeeps ==
    ASSUME AeInv, AeDeliver \/ \E reason \in AeFailures : AeTrialFails(reason)
    PROVE  AeInv'
<1>1. UNCHANGED <<http, agent, judged, replayed, read, record>>
  BY DEF AeDeliver, AeTrialFails
<1>2. serving' \in [failure : Failures \cup {NoFailureYet}, delivered : Nat]
  <2>1. CASE AeDeliver
    BY <2>1 DEF AeDeliver, AeInv, AeTypeOK
  <2>2. CASE \E reason \in AeFailures : AeTrialFails(reason)
    BY <2>2, AeAssumption DEF AeTrialFails, AeInv, AeTypeOK
  <2> QED
    BY <2>1, <2>2
<1>3. AeTypeOK'
  BY <1>1, <1>2 DEF AeInv, AeTypeOK
<1> QED
  BY <1>1, <1>3 DEF AeInv, AeUnverified, AeReadCovers, AeRecordStands

\* While the agent runs nothing has been read and there is no record.
LEMMA AeRunning ==
    ASSUME AeInv, agent.state = "running"
    PROVE  read.pc = "not_started" /\ record = NoRecord
  BY DEF AeInv, AeReadCovers, AeRecordStands

LEMMA AeAgentKeeps ==
    ASSUME AeInv, \/ \E commands \in {"settled", "uncertain", "after_exit"} : AeTurn(commands)
                  \/ \E exception \in Exceptions : AeRaise(exception)
                  \/ \E how \in {"ok", "guard", "failed"} : AeExit(how)
    PROVE  AeInv'
<1>1. agent.state = "running" /\ UNCHANGED <<http, serving, judged, replayed, read, record>>
  BY DEF AeTurn, AeRaise, AeExit
<1>2. AeTypeOK'
  <2>1. CASE \E commands \in {"settled", "uncertain", "after_exit"} : AeTurn(commands)
    <3>1. PICK commands \in {"settled", "uncertain", "after_exit"} : AeTurn(commands)
      BY <2>1
    <3> DEFINE after == IF agent.commands = "settled" THEN commands ELSE agent.commands
               raised == IF commands = "after_exit" THEN "session_ended" ELSE "none"
               turns == agent.turns + 1
    <3>2. agent' = [agent EXCEPT !.turns = turns, !.commands = after, !.exception = raised]
      BY <3>1 DEF AeTurn
    <3>3. turns \in Nat /\ after \in {"settled", "uncertain", "after_exit"} /\ raised \in {"none", "session_ended"}
      BY DEF AeInv, AeTypeOK
    <3> HIDE DEF after, raised, turns
    <3> QED
      BY <1>1, <3>2, <3>3 DEF AeInv, AeTypeOK
  <2>2. CASE \E exception \in Exceptions : AeRaise(exception)
    BY <1>1, <2>2 DEF AeRaise, AeInv, AeTypeOK
  <2>3. CASE \E how \in {"ok", "guard", "failed"} : AeExit(how)
    BY <1>1, <2>3 DEF AeExit, AeInv, AeTypeOK
  <2> QED
    BY <2>1, <2>2, <2>3
<1>3. read.pc = "not_started" /\ record = NoRecord
  BY <1>1, AeRunning
<1> QED
  BY <1>1, <1>2, <1>3 DEF AeInv, AeUnverified, AeReadCovers, AeRecordStands

LEMMA AeJudgedKeeps ==
    ASSUME AeInv, \/ \E j \in AeJudgements, status \in {"complete", "mismatch"} : AeVerify(j, status)
                  \/ \E status \in {"complete", "incomplete"} : AeTeardown(status)
    PROVE  AeInv'
<1>1. agent.state = "running" /\ UNCHANGED <<http, serving, agent, read, record>> /\ replayed.phase = "missing"
  BY DEF AeVerify, AeTeardown
<1>2. AeTypeOK' /\ AeUnverified'
  <2>1. CASE \E j \in AeJudgements, status \in {"complete", "mismatch"} : AeVerify(j, status)
    BY <1>1, <2>1, AeAssumption DEF AeVerify, AeInv, AeTypeOK, AeUnverified, AeReplays
  <2>2. CASE \E status \in {"complete", "incomplete"} : AeTeardown(status)
    BY <1>1, <2>2 DEF AeTeardown, AeInv, AeTypeOK, AeUnverified, AeReplays
  <2> QED
    BY <2>1, <2>2
<1>3. read.pc = "not_started" /\ record = NoRecord
  BY <1>1, AeRunning
<1> QED
  BY <1>1, <1>2, <1>3 DEF AeInv, AeReadCovers, AeRecordStands

LEMMA AeReadCostKeeps ==
    ASSUME AeInv, AeReadCost
    PROVE  AeInv'
<1> DEFINE rejected == \E i \in DOMAIN http : http[i].state = "rejected"
<1>1. /\ agent.state # "running" /\ read.pc = "not_started"
      /\ read' = [read EXCEPT !.pc = "cost", !.provider = ProviderCost, !.rejected = rejected]
      /\ UNCHANGED <<http, serving, agent, judged, replayed, record>>
  BY DEF AeReadCost
<1>2. record = NoRecord
  BY <1>1 DEF AeInv, AeRecordStands
<1>3. Len(http) \in Nat /\ DOMAIN http = 1 .. Len(http) /\ \A i \in 1 .. Len(http) : http[i] \in AeHttpRows
  BY DEF AeInv, AeTypeOK
<1> DEFINE cost(i) == [known |-> http[i].state = "usage", late |-> http[i].late,
                       cost |-> IF http[i].state = "usage" THEN http[i].billed ELSE AeEstimate]
<1>4. \A i \in 1 .. Len(http) :
         /\ cost(i) \in AeCostRows
         /\ cost(i).cost = AeEstimate \/ (http[i].state # "open" /\ cost(i).cost = http[i].billed)
  BY <1>3, AeAssumption DEF AeHttpRows, AeCostRows
<1>5. ProviderCost = [i \in 1 .. Len(http) |-> cost(i)]
  BY <1>3 DEF ProviderCost
<1> HIDE DEF cost, rejected
<1>6. ProviderCost \in Seq(AeCostRows) /\ Len(ProviderCost) = Len(http)
      /\ \A i \in 1 .. Len(http) : ProviderCost[i] = cost(i)
  BY <1>3, <1>4, <1>5
<1> DEFINE provider == ProviderCost
<1>7. provider \in Seq(AeCostRows) /\ Len(provider) = Len(http) /\ \A i \in 1 .. Len(http) : provider[i] = cost(i)
  BY <1>6
<1> HIDE DEF provider
<1>8. rejected \in BOOLEAN
  BY DEF rejected
<1>9. read' = [read EXCEPT !.pc = "cost", !.provider = provider, !.rejected = rejected]
  BY <1>1 DEF provider
<1>10. read'.provider = provider /\ read'.pc = "cost"
  BY <1>9 DEF AeInv, AeTypeOK
<1>11. AeTypeOK'
  BY <1>1, <1>7, <1>8, <1>9 DEF AeInv, AeTypeOK
<1>12. AeReadCovers'
  BY <1>1, <1>3, <1>4, <1>7, <1>10 DEF AeReadCovers
<1> QED
  BY <1>1, <1>2, <1>11, <1>12 DEF AeInv, AeUnverified, AeRecordStands

LEMMA AeReadFailureKeeps ==
    ASSUME AeInv, AeReadFailure
    PROVE  AeInv'
<1>1. /\ read.pc = "cost" /\ read' = [read EXCEPT !.pc = "failure", !.failure = serving.failure]
      /\ UNCHANGED <<http, serving, agent, judged, replayed, record>>
  BY DEF AeReadFailure
<1>2. record = NoRecord /\ read'.provider = read.provider /\ read'.pc = "failure"
  BY <1>1 DEF AeInv, AeRecordStands, AeTypeOK
<1>3. AeTypeOK'
  BY <1>1 DEF AeInv, AeTypeOK
<1> QED
  BY <1>1, <1>2, <1>3 DEF AeInv, AeUnverified, AeReadCovers, AeRecordStands

\* What the classification asks of a result that it scores.
LEMMA AeScoredRests ==
    ASSUME AeTypeOK, NEW image \in BOOLEAN
    PROVE  /\ Result(image) \in AeOutcomes
           /\ Result(image) \in Scored =>
                 /\ \A i \in DOMAIN http : http[i].state = "usage"
                 /\ agent.state = "ok" /\ agent.commands = "settled" /\ Sound(judged)
                 /\ replayed.phase = "before_verifier" /\ replayed.status = "complete"
                 /\ judged.reward = 1 <=> Result(image) = "pass"
           /\ Result(image) \in {"setup_error", "image_error"} => read.provider = <<>>
<1> DEFINE result == Result(image)
<1>1. read.failure \in Failures \cup {NoFailureYet} /\ judged \in Judgements
  BY DEF AeTypeOK
<1>2. CASE read.failure \in Safety
  BY <1>2 DEF Result, AeOutcomes, Safety, Scored
<1>3. CASE read.failure \notin Safety /\ read.provider = <<>>
  <2>1. result \in {"setup_error", "image_error"}
    BY <1>3 DEF Result
  <2> QED
    BY <1>3, <2>1 DEF AeOutcomes, Scored
<1>4. CASE read.failure \notin Safety /\ read.provider # <<>>
  <2>1. result = IF NativeTimeout THEN "timeout"
            ELSE IF read.failure \in Network THEN "network_error"
            ELSE IF read.failure # NoFailureYet THEN "provider_error"
            ELSE IF agent.exception = "verifier" THEN "verifier_crash"
            ELSE IF ~ReplayAcceptedHere
                 THEN IF replayed.phase = "missing" THEN "evidence_missing" ELSE "replay_mismatch"
            ELSE IF ~QualityValid \/ ~MeasurementComplete THEN "evidence_missing"
            ELSE IF judged.reward = 1 THEN "pass"
            ELSE IF judged.tests = "fail_format" THEN "wrong_format"
            ELSE "wrong_answer"
    BY <1>4 DEF Result
  <2>2. result \in {"timeout", "network_error", "provider_error", "verifier_crash", "evidence_missing",
                    "replay_mismatch", "pass", "wrong_format", "wrong_answer"}
    BY <2>1
  <2>3. result \in Scored =>
           /\ ~NativeTimeout /\ ReplayAcceptedHere /\ QualityValid /\ MeasurementComplete
           /\ judged.reward = 1 <=> result = "pass"
    BY <2>1 DEF Scored
  <2>4. QualityValid /\ ~NativeTimeout => Sound(judged)
    BY <1>1 DEF QualityValid, NativeTimeout, Sound, Judgements
  <2> HIDE DEF result
  <2>5. result \in Scored => /\ \A i \in DOMAIN http : http[i].state = "usage"
                             /\ agent.state = "ok" /\ agent.commands = "settled"
                             /\ replayed.phase = "before_verifier" /\ replayed.status = "complete"
    BY <2>3 DEF MeasurementComplete, ProcessComplete, UsageKnown, ReplayAcceptedHere
  <2>6. result \in AeOutcomes /\ result \notin {"setup_error", "image_error"}
    BY <2>2 DEF AeOutcomes, Scored
  <2> QED
    BY <2>3, <2>4, <2>5, <2>6 DEF result
<1> QED
  BY <1>2, <1>3, <1>4

LEMMA AeExcludedUnjudged ==
    ASSUME AeInv, NEW result
    PROVE  Exclusion(result) \in AeExclusions /\ (Exclusion(result) # "none" => judged.reward = -1)
<1>1. replayed.phase = "teardown" => judged.reward = -1
  BY DEF AeInv, AeUnverified, Unjudged
<1>2. SessionExit => replayed.phase = "teardown"
  BY DEF SessionExit
<1> QED
  BY <1>1, <1>2 DEF Exclusion, AeExclusions

LEMMA AeClassifyKeeps ==
    ASSUME AeInv, NEW image \in BOOLEAN, AeClassify(image)
    PROVE  AeInv'
<1> DEFINE result == Result(image)
           exclusion == Exclusion(Result(image))
           error == read.failure # NoFailureYet \/ SessionExit
           row == [result |-> result, provider |-> read.provider, exclusion |-> exclusion, replay |-> replayed,
                   originalError |-> error, evidence |-> "pending"]
<1>1. /\ read.pc = "failure" /\ record' = row /\ read' = [read EXCEPT !.pc = "done"]
      /\ UNCHANGED <<http, serving, agent, judged, replayed>>
  BY DEF AeClassify
<1>2. /\ result \in AeOutcomes
      /\ result \in Scored =>
            /\ \A i \in DOMAIN http : http[i].state = "usage"
            /\ agent.state = "ok" /\ agent.commands = "settled" /\ Sound(judged)
            /\ replayed.phase = "before_verifier" /\ replayed.status = "complete"
            /\ judged.reward = 1 <=> result = "pass"
      /\ result \in {"setup_error", "image_error"} => read.provider = <<>>
  BY AeScoredRests DEF AeInv
<1>3. exclusion \in AeExclusions /\ (exclusion # "none" => judged.reward = -1)
  BY AeExcludedUnjudged
<1>4. error \in BOOLEAN
  BY DEF SessionExit
<1> HIDE DEF result, exclusion, error
<1>5. row \in AeRecords /\ row.result = result /\ row.provider = read.provider /\ row.exclusion = exclusion
      /\ row.evidence = "pending"
  BY <1>2, <1>3, <1>4 DEF AeRecords, AeInv, AeTypeOK
<1> HIDE DEF row
<1>6. read'.pc = "done" /\ read'.provider = read.provider
  BY <1>1 DEF AeInv, AeTypeOK
<1>7. AeTypeOK'
  BY <1>1, <1>5 DEF AeInv, AeTypeOK
<1>8. replayed \in AeReplays /\ DOMAIN http = 1 .. Len(http)
  BY DEF AeInv, AeTypeOK
<1>9. result \in Scored => replayed = [phase |-> "before_verifier", status |-> "complete"]
  BY <1>2, <1>8 DEF AeReplays
<1>10. AeRecordStands'
  BY <1>1, <1>2, <1>3, <1>5, <1>6, <1>8, <1>9 DEF AeRecordStands
<1>11. AeReadCovers'
  BY <1>1, <1>6 DEF AeInv, AeReadCovers
<1> QED
  BY <1>1, <1>7, <1>10, <1>11 DEF AeInv, AeUnverified

LEMMA AeCompleteKeeps ==
    ASSUME AeInv, NEW uploaded \in BOOLEAN, NEW costs \in BOOLEAN, NEW timings \in BOOLEAN,
           AeComplete(uploaded, costs, timings)
    PROVE  AeInv'
<1>1. record # NoRecord /\ UNCHANGED <<http, serving, agent, judged, replayed, read>>
  BY DEF AeComplete
<1>2. \E evidence \in {"incomplete", "quality_result_complete", "technical_exclusion_complete"} :
         /\ record' = [record EXCEPT !.evidence = evidence]
         /\ evidence = "quality_result_complete" => record.result \in Scored
  <2> DEFINE replay == record.replay = [phase |-> "before_verifier", status |-> "complete"]
             complete == uploaded /\ costs /\ timings /\ (replay \/ ExclusionComplete)
             evidence == IF ~complete THEN "incomplete"
                         ELSE IF record.result \in Scored THEN "quality_result_complete"
                         ELSE "technical_exclusion_complete"
  <2>1. record' = [record EXCEPT !.evidence = evidence]
    BY DEF AeComplete
  <2>2. evidence \in {"incomplete", "quality_result_complete", "technical_exclusion_complete"}
        /\ (evidence = "quality_result_complete" => record.result \in Scored)
    OBVIOUS
  <2> HIDE DEF evidence
  <2> QED
    BY <2>1, <2>2
<1>3. PICK evidence \in {"incomplete", "quality_result_complete", "technical_exclusion_complete"} :
         /\ record' = [record EXCEPT !.evidence = evidence]
         /\ evidence = "quality_result_complete" => record.result \in Scored
  BY <1>2
<1>4. record \in AeRecords
  BY <1>1 DEF AeInv, AeTypeOK
<1>5. record' \in AeRecords /\ record'.evidence = evidence /\ record'.result = record.result
      /\ record'.provider = record.provider /\ record'.exclusion = record.exclusion
  BY <1>3, <1>4 DEF AeRecords
<1>6. AeTypeOK'
  BY <1>1, <1>5 DEF AeInv, AeTypeOK
<1>7. AeRecordStands'
  BY <1>1, <1>3, <1>5 DEF AeInv, AeRecordStands
<1> QED
  BY <1>1, <1>6, <1>7 DEF AeInv, AeUnverified, AeReadCovers

\* A scored attempt rests on usage, cost, commands, verifier and replay that
\* agree, an undispatched one sent nothing, and an exclusion hides no reward,
\* for any number of HTTP attempts, any faults, and whatever a thread of the
\* transport does between the reads (_classify_attempt).
THEOREM AeScoreAlwaysBacked == AeSpec => []AeScoreIsBacked
<1>1. AeInv /\ [AeNext]_aeVars => AeInv'
  <2> SUFFICES ASSUME AeInv, [AeNext]_aeVars PROVE AeInv'
    OBVIOUS
  <2>1. CASE UNCHANGED aeVars
    BY <2>1 DEF aeVars, AeInv, AeTypeOK, AeUnverified, AeReadCovers, AeRecordStands
  <2>2. CASE AeNext
    BY <2>2, AeDispatchKeeps, AeAnswerKeeps, AeServingKeeps, AeAgentKeeps, AeJudgedKeeps, AeReadCostKeeps,
       AeReadFailureKeeps, AeClassifyKeeps, AeCompleteKeeps DEF AeNext
  <2> QED
    BY <2>1, <2>2
<1> QED
  BY <1>1, AeInitHolds, AeInvBacked, PTL DEF AeSpec

(***************************************************************************)
(* FrontEnds.                                                              *)
(***************************************************************************)

FeAts == {"load", "gate", "lower", "reads", "saves", "records", "next", "starts", "ended", "over", "killed"}
FeResults == [status : {"checked", "completed", "failed"}, run : 0 .. FeRuns, measured : BOOLEAN, terminated : BOOLEAN]
FeFrontRows ==
    [run : 1 .. FeRuns, execute : BOOLEAN, at : FeAts, paid : BOOLEAN, faulted : BOOLEAN, result : FeResults,
     exit : {-1, 0, 2, 3}]
FeEndRows == [code : {0, 2, 3}, judged : BOOLEAN, stored : BOOLEAN, attempts : {0, 1, 2}, terminated : BOOLEAN]
FePart == [status |-> "part"]

FeTypeOK ==
    /\ feRequest \in FeRequests
    /\ front \in FeFrontRows
    /\ feEnds \in [1 .. FeRuns -> FeEndRows \cup {FeNothing}]
    /\ kept \in [1 .. FeRuns -> FeResults \cup {FeNothing, FePart}]
    /\ published \in FeResults \cup {FeNothing}

\* A record is backed by the run it names, which has ended.
FeSound(told) ==
    /\ told.run = 0 => told.status # "completed" /\ ~told.measured /\ ~told.terminated
    /\ told.run # 0 => feEnds[told.run] # FeNothing
    /\ told.status = "completed" => Whole(feEnds[told.run])
    /\ told.measured => feEnds[told.run].judged
    /\ told.terminated => told.status = "failed" /\ ~told.measured

FeRecordsSound ==
    /\ FeSound(front.result)
    /\ published \in FeResults => FeSound(published)
    /\ \A r \in 1 .. FeRuns : kept[r] \in FeResults => FeSound(kept[r])

\* Runs end in order, the current one after its lower runner.
FeRunsInOrder ==
    /\ \A r \in 1 .. FeRuns : feEnds[r] # FeNothing =>
          r < front.run \/ (r = front.run /\ front.at \in {"reads", "saves", "records", "over", "killed"})
    /\ feEnds[front.run] # FeNothing => feEnds[front.run] \in FeLowerEnds(feRequest.kind, front.execute)

\* What holds where a command is.
FePlaces ==
    /\ front.at \in {"gate", "lower", "reads", "saves", "records"} =>
          FeReconciled /\ (FeKind({"static", "native"}) => "commit" \notin feRequest.lacks)
    /\ front.at = "lower" => feRequest.lacks \cap FeNeeds(feRequest.kind, front.execute) = {}
    /\ front.at \in {"load", "gate", "lower"} => ~front.paid /\ front.result = FeBase
    /\ front.at = "reads" => front.execute /\ feEnds[front.run] # FeNothing /\ feEnds[front.run].code # 2
    /\ front.at = "saves" =>
          IF front.execute THEN /\ feEnds[front.run] # FeNothing /\ feEnds[front.run].code # 2
                                /\ front.result = FeResult(feEnds[front.run])
          ELSE front.result = FeBase
    /\ front.at = "records" => front.result.status = "failed"
    /\ (front.at = "records" /\ front.execute /\ Whole(feEnds[front.run])) =>
          front.faulted \/ FeKind({"benchmark"})
    /\ front.at # "over" => front.exit = -1

FeOutcome ==
    /\ front.paid => front.execute /\ feRequest.lacks = {} /\ FeReconciled
    /\ (front.exit = 0 /\ ~FeKind({"comparison"})) =>
        IF front.execute THEN Whole(feEnds[front.run]) /\ FeRecordOf(front.run) = front.result
        ELSE ~front.paid /\ (FeKind({"benchmark"}) => published = front.result)
    /\ (front.exit > 0 /\ front.execute /\ Whole(feEnds[front.run])) =>
        front.faulted \/ FeKind({"benchmark"})

\* A comparison runs nothing of the other kinds, and they no comparison.
FeKindsApart ==
    /\ FeKind({"comparison"}) =>
          /\ front.at \in {"load", "next", "starts", "ended", "over", "killed"} /\ ~front.paid
          /\ front.result = FeBase /\ published = FeNothing
          /\ \A r \in 1 .. FeRuns : feEnds[r] = FeNothing /\ kept[r] = FeNothing
    /\ ~FeKind({"comparison"}) => front.at \notin {"next", "starts", "ended"} /\ cmp.file = FeNothing

FeSide == FeTypeOK /\ FeRecordsSound /\ FeRunsInOrder /\ FePlaces /\ FeOutcome /\ FeKindsApart

-----------------------------------------------------------------------------
CmEntries == {"none", "starting", "unavailable", "recorded", "raised"}
CmStatuses == UNION {[D -> CmEntries] : D \in SUBSET FeConditions}
CmFiles == [finished : BOOLEAN, of : CmStatuses]
CmRows ==
    [evidence : FeEvidence, task : {SelectedTask(e) : e \in FeEvidence} \cup {"none"}, order : Seq(FeConditions),
     available : SUBSET FeConditions, status : CmStatuses, started : Seq(FeConditions),
     ends : [FeConditions -> CmEntries], file : CmFiles \cup {FeNothing}]

CmFirst(n) == {cmp.order[m] : m \in 1 .. n}
CmStarted == {cmp.started[i] : i \in 1 .. Len(cmp.started)}
CmEndOf(c) == IF c \in cmp.available THEN cmp.ends[c] ELSE "unavailable"

\* The order is one of all conditions, and those of its beginning were reached.
CmPrepared ==
    /\ Len(cmp.order) = Cardinality(FeConditions)
    /\ \A i, j \in 1 .. Len(cmp.order) : cmp.order[i] = cmp.order[j] => i = j
    /\ cmp.task = SelectedTask(cmp.evidence)
    /\ Reached \in 0 .. Len(cmp.order) /\ DOMAIN cmp.status = CmFirst(Reached)
    /\ CmStartedInOrder

CmWhere ==
    /\ front.at \in {"next", "ended"} =>
          /\ CmStarted = CmFirst(Reached) \cap cmp.available
          /\ \A c \in DOMAIN cmp.status : cmp.status[c] = CmEndOf(c)
    /\ front.at = "starts" =>
          /\ CmStarted = CmFirst(Reached - 1) \cap cmp.available
          /\ \A c \in DOMAIN cmp.status :
                cmp.status[c] = IF c = cmp.order[Reached] THEN "starting" ELSE CmEndOf(c)
    /\ front.at \in {"starts", "ended"} => Reached > 0 /\ cmp.order[Reached] \in cmp.available
    /\ front.at \in {"next", "starts"} => cmp.file.of = cmp.status
    /\ front.at = "ended" => DOMAIN cmp.file.of = DOMAIN cmp.status
    /\ front.at \in {"next", "starts", "ended"} => ~cmp.file.finished

CmFileTells ==
    /\ CmStarted \subseteq DOMAIN cmp.file.of
    /\ \A c \in DOMAIN cmp.file.of : cmp.file.of[c] \in {cmp.ends[c], "starting", "unavailable"}
    /\ cmp.file.finished => \A c \in FeConditions : cmp.file.of[c] = CmEndOf(c)
    /\ (front.exit = 0 /\ front.execute) => cmp.file.finished

CmSide ==
    /\ cmp \in CmRows
    /\ front.at \in {"next", "starts", "ended"} => cmp.file # FeNothing
    /\ front.at = "load" \/ cmp.file = FeNothing => cmp.started = <<>>
    /\ cmp.file # FeNothing => CmPrepared /\ CmWhere /\ CmFileTells

FeInv == FeSide /\ CmSide

-----------------------------------------------------------------------------
LEMMA FeNothingApart == FeNothing \notin FeEndRows /\ FeNothing \notin FeResults /\ FePart \notin FeResults /\ FeNothing \notin CmFiles
<1>1. DOMAIN FeNothing = {"status"} /\ DOMAIN FePart = {"status"}
  BY DEF FeNothing, FePart
<1>2. \A r \in FeEndRows : "code" \in DOMAIN r
  BY DEF FeEndRows
<1>3. \A r \in FeResults : "run" \in DOMAIN r
  BY DEF FeResults
<1>4. \A r \in CmFiles : "of" \in DOMAIN r
  BY DEF CmFiles
<1> QED
  BY <1>1, <1>2, <1>3, <1>4

LEMMA FeTheBase == FeBase \in FeResults /\ FeBase.run = 0 /\ FeBase.status = "checked" /\ ~FeBase.measured /\ ~FeBase.terminated
<1> DEFINE zero == 0
<1>1. FeBase = [status |-> "checked", run |-> zero, measured |-> FALSE, terminated |-> FALSE]
  BY DEF FeBase
<1>2. zero = 0 /\ zero \in 0 .. FeRuns
  BY FeAssumption
<1> HIDE DEF zero
<1> QED
  BY <1>1, <1>2 DEF FeResults

LEMMA FeEndsTyped == \A kind, execute : FeLowerEnds(kind, execute) \subseteq FeEndRows
<1> SUFFICES ASSUME NEW kind, NEW execute PROVE FeLowerEnds(kind, execute) \subseteq FeEndRows
  OBVIOUS
<1>1. \A c \in {0, 2, 3}, n \in {0, 1, 2}, j, s, t \in BOOLEAN : FeEnd(c, j, s, n, t) \in FeEndRows
  BY DEF FeEnd, FeEndRows
<1>2. FeStaticEnds \subseteq FeEndRows
  BY <1>1 DEF FeStaticEnds
<1>3. FeNativeEnds(execute) \subseteq FeEndRows
  BY <1>1 DEF FeNativeEnds
<1>4. FeDiagnoseEnds \subseteq FeEndRows
  BY DEF FeDiagnoseEnds, FeEndRows
<1> QED
  BY <1>2, <1>3, <1>4 DEF FeLowerEnds

\* What the runner of each kind may end in: a complete run is a whole one, and
\* the other way round but for a benchmark.
LEMMA FeCompleteIsWhole ==
    ASSUME NEW end \in FeLowerEnds(feRequest.kind, TRUE), end.code # 2, feRequest.kind \in {"static", "native", "benchmark"}
    PROVE  /\ FeComplete(end) => end.judged /\ end.stored
           /\ end.judged /\ end.stored => FeComplete(end) \/ FeKind({"benchmark"})
           /\ FeMeasured(end) => end.judged
           /\ end.terminated => ~end.judged
<1>1. CASE feRequest.kind = "static"
  BY <1>1 DEF FeLowerEnds, FeStaticEnds, FeEnd, FeComplete, FeMeasured, FeKind
<1>2. CASE feRequest.kind = "native"
  BY <1>2 DEF FeLowerEnds, FeNativeEnds, FeEnd, FeComplete, NativeComplete, FeMeasured, FeKind
<1>3. CASE feRequest.kind = "benchmark"
  BY <1>3 DEF FeLowerEnds, FeDiagnoseEnds, FeEnd, FeComplete, BenchmarkComplete, AttemptRecord, FeMeasured, FeKind
<1> QED
  BY <1>1, <1>2, <1>3

\* The task is chosen without a look at the judgements.
LEMMA CmTaskIsBlind ==
    ASSUME NEW evidence \in FeEvidence,
           NEW given \in [{FeInventory[i] : i \in DOMAIN FeInventory} -> QualityResults]
    PROVE  SelectedTask(Rejudged(evidence, given)) = SelectedTask(evidence)
<1> DEFINE again(e) == [e EXCEPT !.result = IF e.result \in QualityResults THEN given[e.task] ELSE @]
<1>1. \A e \in evidence :
         /\ again(e).task = e.task /\ again(e).source = e.source /\ again(e).complete = e.complete
         /\ again(e).result \in QualityResults <=> e.result \in QualityResults
  BY FeAssumption
<1>2. Rejudged(evidence, given) = {again(e) : e \in evidence}
  BY DEF Rejudged
<1> HIDE DEF again
<1>3. \A source : Candidates(Rejudged(evidence, given), source) = Candidates(evidence, source)
  BY <1>1, <1>2 DEF Candidates, Candidate
<1>4. Selectable(Rejudged(evidence, given)) = Selectable(evidence)
  BY <1>3 DEF Selectable
<1> QED
  BY <1>4 DEF SelectedTask, SelectInSeq

LEMMA FeInvTrue == FeInv => FeRecordsAreTrue
<1> SUFFICES ASSUME FeInv PROVE FeRecordsAreTrue
  OBVIOUS
<1>1. FeResultIsTrue
  <2>1. \A told \in FeDisk : FeBacked(told)
    <3> SUFFICES ASSUME NEW told \in FeDisk, told.status \in {"checked", "completed", "failed"} PROVE FeBacked(told)
      BY DEF FeBacked
    <3>1. told \in FeResults /\ FeSound(told)
      <4>1. FeNothing.status = "none" /\ FePart.status = "part"
        BY DEF FeNothing, FePart
      <4> QED
        BY <4>1 DEF FeDisk, FeInv, FeSide, FeTypeOK, FeRecordsSound
    <3> QED
      BY <3>1 DEF FeSound, FeBacked
  <2> QED
    BY <2>1 DEF FeInv, FeSide, FeOutcome, FeResultIsTrue
<1>2. FeComparisonIsWhole
  <2> SUFFICES ASSUME cmp.file # FeNothing PROVE FeComparisonIsWhole
    BY DEF FeComparisonIsWhole
  <2>1. CmPrepared /\ CmFileTells /\ cmp \in CmRows
    BY DEF FeInv, CmSide
  <2>2. cmp.evidence \in FeEvidence /\ cmp.started \in Seq(FeConditions) /\ DOMAIN cmp.started = 1 .. Len(cmp.started)
    BY <2>1 DEF CmRows
  <2>3. \A given \in [{FeInventory[i] : i \in DOMAIN FeInventory} -> QualityResults] :
           SelectedTask(Rejudged(cmp.evidence, given)) = cmp.task
    BY <2>1, <2>2, CmTaskIsBlind DEF CmPrepared
  <2> QED
    BY <2>1, <2>2, <2>3 DEF CmPrepared, CmFileTells, CmStarted, CmEndOf, FeComparisonIsWhole
<1> QED
  BY <1>1, <1>2 DEF FeRecordsAreTrue

LEMMA CmNoStatusTyped == CmNoStatus \in CmStatuses /\ DOMAIN CmNoStatus = {} /\ Cardinality(DOMAIN CmNoStatus) = 0
<1>1. CmNoStatus \in [{} -> CmEntries] /\ DOMAIN CmNoStatus = {}
  BY DEF CmNoStatus
<1>2. {} \in SUBSET FeConditions
  OBVIOUS
<1>3. CmNoStatus \in CmStatuses
  BY <1>1, <1>2 DEF CmStatuses
<1> QED
  BY <1>1, <1>3, FS_EmptySet

LEMMA FeInitHolds == FeInit => FeInv
<1> SUFFICES ASSUME FeInit PROVE FeInv
  OBVIOUS
<1> DEFINE one == 1
           minus == -1
<1>1. PICK execute \in BOOLEAN : front = FeCommand(1, execute)
  BY DEF FeInit
<1>2. front = [run |-> one, execute |-> execute, at |-> "load", paid |-> FALSE, faulted |-> FALSE, result |-> FeBase, exit |-> minus]
  BY <1>1 DEF FeCommand
<1>3. one \in 1 .. FeRuns /\ minus \in {-1, 0, 2, 3} /\ minus = -1
  BY FeAssumption
<1> HIDE DEF one, minus
<1>4. front \in FeFrontRows /\ front.at = "load" /\ ~front.paid /\ front.result = FeBase /\ front.exit = -1 /\ front.run \in 1 .. FeRuns
  BY <1>2, <1>3, FeTheBase DEF FeFrontRows, FeAts
<1>5. feRequest \in FeRequests /\ published = FeNothing
      /\ \A r \in 1 .. FeRuns : feEnds[r] = FeNothing /\ kept[r] = FeNothing
  BY DEF FeInit
<1>6. FeTypeOK
  BY <1>4, <1>5 DEF FeInit, FeTypeOK
<1>7. FeSound(FeBase)
  BY FeTheBase DEF FeSound
<1>8. FeRecordsSound
  BY <1>4, <1>5, <1>7, FeNothingApart DEF FeRecordsSound
<1>9. FeRunsInOrder /\ FePlaces /\ FeOutcome
  BY <1>4, <1>5 DEF FeRunsInOrder, FePlaces, FeOutcome
<1>10. PICK evidence \in FeEvidence :
          cmp = [evidence |-> evidence, task |-> "none", order |-> <<>>, available |-> {}, status |-> CmNoStatus,
                 started |-> <<>>, ends |-> [c \in FeConditions |-> "none"], file |-> FeNothing]
  BY DEF FeInit
<1>11. cmp.file = FeNothing
  BY <1>10
<1>12. [c \in FeConditions |-> "none"] \in [FeConditions -> CmEntries]
  BY DEF CmEntries
<1>13. cmp \in CmRows
  <2> DEFINE ends == [c \in FeConditions |-> "none"]
             tasks == {SelectedTask(e) : e \in FeEvidence} \cup {"none"}
  <2>1. "none" \in tasks /\ ends \in [FeConditions -> CmEntries]
    BY <1>12
  <2>2. <<>> \in Seq(FeConditions) /\ {} \in SUBSET FeConditions
    OBVIOUS
  <2>3. CmRows = [evidence : FeEvidence, task : tasks, order : Seq(FeConditions),
     available : SUBSET FeConditions, status : CmStatuses, started : Seq(FeConditions),
     ends : [FeConditions -> CmEntries], file : CmFiles \cup {FeNothing}]
    BY DEF CmRows
  <2>4. cmp = [evidence |-> evidence, task |-> "none", order |-> <<>>, available |-> {}, status |-> CmNoStatus,
                 started |-> <<>>, ends |-> ends, file |-> FeNothing]
    BY <1>10
  <2> HIDE DEF ends, tasks
  <2> QED
    BY <2>1, <2>2, <2>3, <2>4, CmNoStatusTyped
<1>14. FeKindsApart
  BY <1>4, <1>5, <1>11 DEF FeKindsApart
<1>15. CmSide
  BY <1>4, <1>10, <1>11, <1>13 DEF CmSide
<1> QED
  BY <1>6, <1>8, <1>9, <1>14, <1>15 DEF FeInv, FeSide

-----------------------------------------------------------------------------
\* A command of another kind leaves the comparison alone.
LEMMA CmLeftAlone ==
    ASSUME FeInv, feRequest' = feRequest, cmp' = cmp, ~FeKind({"comparison"}), front'.at \notin {"next", "starts", "ended"}
    PROVE  CmSide'
  BY DEF FeInv, FeSide, CmSide, FeKindsApart

\* Where nothing on disk changes and the runner has not ended since.
LEMMA FeDiskLeftAlone ==
    ASSUME FeInv, UNCHANGED <<feRequest, feEnds, kept, published, cmp>>, ~FeKind({"comparison"}),
           front' \in FeFrontRows, front'.run = front.run, front'.execute = front.execute,
           front'.at \notin {"next", "starts", "ended"}, FeSound(front'.result),
           feEnds[front.run] # FeNothing => front'.at \in {"reads", "saves", "records", "over", "killed"},
           FePlaces', FeOutcome'
    PROVE  FeInv'
<1>1. CmSide'
  BY CmLeftAlone
<1>2. FeTypeOK'
  BY DEF FeInv, FeSide, FeTypeOK
<1>3. FeRecordsSound'
  BY DEF FeInv, FeSide, FeRecordsSound, FeSound, Whole
<1>4. FeRunsInOrder'
  BY DEF FeInv, FeSide, FeRunsInOrder
<1>5. FeKindsApart'
  BY DEF FeInv, FeSide, FeKindsApart, FeKind
<1> QED
  BY <1>1, <1>2, <1>3, <1>4, <1>5 DEF FeInv, FeSide

LEMMA FeLoadKeeps == FeInv /\ FeLoad => FeInv'
<1> SUFFICES ASSUME FeInv, FeLoad PROVE FeInv'
  OBVIOUS
<1> DEFINE two == 2
<1>1. /\ front.at = "load" /\ UNCHANGED <<feRequest, feEnds, kept, published, cmp>> /\ ~FeKind({"comparison"})
      /\ front \in FeFrontRows /\ front.exit = -1 /\ ~front.paid /\ front.result = FeBase /\ feEnds[front.run] = FeNothing
  <2>1. front.run \in 1 .. FeRuns
    BY DEF FeInv, FeSide, FeTypeOK, FeFrontRows
  <2> QED
    BY <2>1 DEF FeLoad, FeKind, FeInv, FeSide, FeTypeOK, FePlaces, FeRunsInOrder
<1>2. \/ /\ front' = [front EXCEPT !.at = "gate"]
         /\ FeReconciled /\ (FeKind({"static", "native"}) => "commit" \notin feRequest.lacks)
      \/ front' = [front EXCEPT !.at = "over", !.exit = two]
  BY DEF FeLoad, FeLeaves
<1>3. two = 2 /\ two \in {-1, 0, 2, 3}
  OBVIOUS
<1> HIDE DEF two
<1>4. /\ front' \in FeFrontRows /\ front'.run = front.run /\ front'.execute = front.execute /\ front'.result = FeBase /\ ~front'.paid
      /\ \/ /\ front'.at = "gate" /\ front'.exit = -1
            /\ FeReconciled /\ (FeKind({"static", "native"}) => "commit" \notin feRequest.lacks)
         \/ front'.at = "over" /\ front'.exit = 2
  BY <1>1, <1>2, <1>3 DEF FeFrontRows, FeAts
<1>5. FePlaces'
  BY <1>1, <1>4 DEF FePlaces, FeReconciled, FeKind
<1>6. FeOutcome'
  BY <1>1, <1>4 DEF FeOutcome, Whole
<1>7. FeSound(front'.result)
  BY <1>1, <1>4 DEF FeInv, FeSide, FeRecordsSound
<1> QED
  BY <1>1, <1>4, <1>5, <1>6, <1>7, FeDiskLeftAlone

LEMMA FeGateKeeps == FeInv /\ FeGate => FeInv'
<1> SUFFICES ASSUME FeInv, FeGate PROVE FeInv'
  OBVIOUS
<1>1. /\ front.at = "gate" /\ UNCHANGED <<feRequest, feEnds, kept, published, cmp>> /\ ~FeKind({"comparison"})
      /\ front \in FeFrontRows /\ front.exit = -1 /\ ~front.paid /\ front.result = FeBase /\ feEnds[front.run] = FeNothing
      /\ FeReconciled /\ (FeKind({"static", "native"}) => "commit" \notin feRequest.lacks)
  <2>1. front.run \in 1 .. FeRuns
    BY DEF FeInv, FeSide, FeTypeOK, FeFrontRows
  <2> QED
    BY <2>1 DEF FeGate, FeKind, FeInv, FeSide, FeTypeOK, FePlaces, FeRunsInOrder, FeKindsApart
<1> DEFINE failed == [FeBase EXCEPT !.status = "failed"]
           three == 3
<1>2. failed \in FeResults /\ failed.run = 0 /\ failed.status = "failed" /\ ~failed.measured /\ ~failed.terminated
  BY FeTheBase DEF FeResults
<1>3. three = 3 /\ three \in {-1, 0, 2, 3}
  OBVIOUS
<1>4. \/ front' = [front EXCEPT !.at = "records", !.result = failed]
      \/ front' = [front EXCEPT !.at = "over", !.exit = three, !.result = failed]
      \/ front' = [front EXCEPT !.at = "saves"] /\ ~front.execute
      \/ front' = [front EXCEPT !.at = "lower"] /\ feRequest.lacks \cap FeNeeds(feRequest.kind, front.execute) = {}
  BY DEF FeGate, FeFailed, FeLeaves
<1> HIDE DEF failed, three
<1>5. /\ front' \in FeFrontRows /\ front'.run = front.run /\ front'.execute = front.execute /\ ~front'.paid
      /\ \/ front'.at = "records" /\ front'.exit = -1 /\ front'.result = failed
         \/ front'.at = "over" /\ front'.exit = 3 /\ front'.result = failed
         \/ front'.at = "saves" /\ front'.exit = -1 /\ ~front.execute /\ front'.result = FeBase
         \/ front'.at = "lower" /\ front'.exit = -1 /\ front'.result = FeBase
            /\ feRequest.lacks \cap FeNeeds(feRequest.kind, front.execute) = {}
  BY <1>1, <1>2, <1>3, <1>4 DEF FeFrontRows, FeAts
<1>6. FePlaces'
  BY <1>1, <1>2, <1>5 DEF FePlaces, FeReconciled, FeKind, Whole, FeNeeds, BenchmarkNeeds
<1>7. FeOutcome'
  BY <1>1, <1>5 DEF FeOutcome, Whole
<1>8. FeSound(front'.result)
  BY <1>2, <1>5, FeTheBase DEF FeSound
<1>9. feEnds[front.run] # FeNothing => front'.at \in {"reads", "saves", "records", "over", "killed"}
  BY <1>1
<1>10. front'.at \notin {"next", "starts", "ended"}
  BY <1>5
<1> QED
  BY <1>1, <1>5, <1>6, <1>7, <1>8, <1>9, <1>10, FeDiskLeftAlone

LEMMA FeLowerKeeps ==
    ASSUME FeInv, NEW end, FeLower(end)
    PROVE  FeInv'
<1>1. /\ front.at = "lower" /\ UNCHANGED <<feRequest, kept, published, cmp>> /\ ~FeKind({"comparison"})
      /\ front \in FeFrontRows /\ front.exit = -1 /\ ~front.paid /\ front.result = FeBase /\ feEnds[front.run] = FeNothing
      /\ FeReconciled /\ (FeKind({"static", "native"}) => "commit" \notin feRequest.lacks)
      /\ feRequest.lacks \cap FeNeeds(feRequest.kind, front.execute) = {} /\ front.run \in 1 .. FeRuns
      /\ feEnds' = [feEnds EXCEPT ![front.run] = end] /\ end \in FeLowerEnds(feRequest.kind, front.execute)
      /\ feRequest \in FeRequests
  <2>1. front.run \in 1 .. FeRuns
    BY DEF FeInv, FeSide, FeTypeOK, FeFrontRows
  <2> QED
    BY <2>1 DEF FeLower, FeKind, FeInv, FeSide, FeTypeOK, FePlaces, FeRunsInOrder, FeKindsApart
<1> DEFINE failed == [FeBase EXCEPT !.status = "failed"]
           three == 3
           paid == FeKind({"native", "benchmark"}) /\ front.execute
<1>2. failed \in FeResults /\ failed.run = 0 /\ failed.status = "failed" /\ ~failed.measured /\ ~failed.terminated
  BY FeTheBase DEF FeResults
<1>3. three = 3 /\ three \in {-1, 0, 2, 3} /\ paid \in BOOLEAN
  BY <1>1 DEF FeFrontRows
<1>4. end \in FeEndRows /\ end # FeNothing
  BY <1>1, FeEndsTyped, FeNothingApart
<1>5. \/ front' = [front EXCEPT !.at = "records", !.result = failed, !.paid = paid] /\ end.code = 2
      \/ front' = [front EXCEPT !.at = "over", !.exit = three, !.result = failed, !.paid = paid] /\ end.code = 2
      \/ front' = [front EXCEPT !.at = "reads", !.paid = paid] /\ front.execute /\ end.code # 2
      \/ front' = [front EXCEPT !.at = "saves", !.paid = paid] /\ ~front.execute /\ end.code # 2
  BY <1>1 DEF FeLower, FeFailed, FeLeaves, FeFrontRows
<1>6. paid => front.execute /\ feRequest.lacks = {}
  <2> SUFFICES ASSUME paid PROVE feRequest.lacks = {}
    BY DEF paid
  <2>1. feRequest.lacks \subseteq {"commit"} \cup FeNeeds(feRequest.kind, TRUE)
    BY <1>1, FeLacksAssumption DEF FeKind
  <2>2. feRequest.lacks \cap FeNeeds(feRequest.kind, TRUE) = {}
    BY <1>1, <1>3
  <2>3. CASE feRequest.kind = "native"
    BY <1>1, <2>1, <2>2, <2>3 DEF FeKind
  <2>4. CASE feRequest.kind = "benchmark"
    BY <2>1, <2>2, <2>4 DEF FeNeeds, BenchmarkNeeds
  <2> QED
    BY <2>3, <2>4 DEF FeKind
<1> HIDE DEF failed, three, paid
<1>7. /\ front' \in FeFrontRows /\ front'.run = front.run /\ front'.execute = front.execute /\ front'.paid = paid
      /\ \/ front'.at = "records" /\ front'.exit = -1 /\ front'.result = failed /\ end.code = 2
         \/ front'.at = "over" /\ front'.exit = 3 /\ front'.result = failed /\ end.code = 2
         \/ front'.at = "saves" /\ front'.exit = -1 /\ ~front.execute /\ front'.result = FeBase
         \/ front'.at = "reads" /\ front'.exit = -1 /\ front'.result = FeBase /\ front.execute /\ end.code # 2
  BY <1>1, <1>2, <1>3, <1>5 DEF FeFrontRows, FeAts
<1>8. /\ feEnds' \in [1 .. FeRuns -> FeEndRows \cup {FeNothing}] /\ feEnds'[front.run] = end
      /\ \A r \in 1 .. FeRuns : r # front.run => feEnds'[r] = feEnds[r]
  BY <1>1, <1>4 DEF FeInv, FeSide, FeTypeOK
<1>9. front'.at \in {"records", "over", "saves", "reads"}
  BY <1>7
<1>10. FeTypeOK'
  BY <1>1, <1>7, <1>8 DEF FeInv, FeSide, FeTypeOK
<1>11. \A told \in FeResults : FeSound(told) => FeSound(told)'
  BY <1>1, <1>8 DEF FeSound, Whole, FeResults
<1>12. FeRecordsSound'
  <2>1. FeSound(failed)' /\ FeSound(FeBase)'
    BY <1>2, FeTheBase DEF FeSound
  <2>2. front'.result \in {failed, FeBase}
    BY <1>7
  <2>3. FeSound(front.result)'
    BY <1>2, <2>1, <2>2, FeTheBase DEF FeSound
  <2> QED
    BY <1>1, <1>11, <2>3 DEF FeInv, FeSide, FeRecordsSound, FeSound
<1>13. FeRunsInOrder'
  <2>1. \A r \in 1 .. FeRuns : feEnds'[r] # FeNothing =>
          r < front'.run \/ (r = front'.run /\ front'.at \in {"reads", "saves", "records", "over", "killed"})
    BY <1>1, <1>7, <1>8, <1>9 DEF FeInv, FeSide, FeRunsInOrder
  <2> QED
    BY <1>1, <1>7, <1>8, <2>1 DEF FeRunsInOrder
<1>14. FePlaces'
  BY <1>1, <1>2, <1>4, <1>7, <1>8, <1>9 DEF FePlaces, FeReconciled, FeKind, Whole
<1>15. FeOutcome'
  BY <1>1, <1>6, <1>7, <1>8, <1>9 DEF FeOutcome, Whole, FeReconciled
<1>16. FeKindsApart'
  BY <1>1, <1>9 DEF FeInv, FeSide, FeKindsApart, FeKind
<1>17. CmSide'
  BY <1>1, <1>9, CmLeftAlone
<1> QED
  BY <1>10, <1>12, <1>13, <1>14, <1>15, <1>16, <1>17 DEF FeInv, FeSide

\* What is read from a lower run is what it ended in.
LEMMA FeResultOfEnd ==
    ASSUME FeInv, ~FeKind({"comparison"}), front.execute, feEnds[front.run] # FeNothing, feEnds[front.run].code # 2
    PROVE  /\ FeResult(feEnds[front.run]) \in FeResults /\ FeSound(FeResult(feEnds[front.run]))
           /\ FeResult(feEnds[front.run]).status \in {"completed", "failed"}
           /\ FeResult(feEnds[front.run]).status = "completed" => Whole(feEnds[front.run])
           /\ Whole(feEnds[front.run]) => FeResult(feEnds[front.run]).status = "completed" \/ FeKind({"benchmark"})
<1> DEFINE end == feEnds[front.run]
           result == FeResult(end)
<1>1. front.run \in 1 .. FeRuns /\ end \in FeLowerEnds(feRequest.kind, TRUE) /\ feRequest.kind \in {"static", "native", "benchmark"}
  BY FeAssumption DEF FeInv, FeSide, FeTypeOK, FeFrontRows, FeRunsInOrder, FeKind
<1>2. end \in FeEndRows
  BY <1>1, FeEndsTyped
<1>3. /\ FeComplete(end) => end.judged /\ end.stored
      /\ end.judged /\ end.stored => FeComplete(end) \/ FeKind({"benchmark"})
      /\ FeMeasured(end) => end.judged
      /\ end.terminated => ~end.judged
  BY <1>1, FeCompleteIsWhole
<1> DEFINE status == IF FeComplete(end) THEN "completed" ELSE "failed"
           wasMeasured == FeMeasured(end)
<1>4. wasMeasured \in BOOLEAN
  BY <1>1, <1>2 DEF FeMeasured, FeComplete, NativeComplete, BenchmarkComplete, AttemptRecord, FeKind, FeEndRows
<1>5. result = [status |-> status, run |-> front.run, measured |-> wasMeasured, terminated |-> end.terminated]
  BY DEF FeResult
<1>6. /\ status \in {"completed", "failed"} /\ (status = "completed" => Whole(end))
      /\ Whole(end) => status = "completed" \/ FeKind({"benchmark"})
  BY <1>2, <1>3, FeNothingApart DEF Whole
<1>7. end.terminated \in BOOLEAN /\ front.run \in 0 .. FeRuns /\ front.run # 0
  BY <1>1, <1>2, FeAssumption DEF FeEndRows
<1>8. /\ result \in FeResults /\ result.status = status /\ result.run = front.run
      /\ result.measured = wasMeasured /\ result.terminated = end.terminated
  <2> HIDE DEF status, wasMeasured, end, result
  <2> QED
    BY <1>4, <1>5, <1>6, <1>7 DEF FeResults
<1>9. wasMeasured => end.judged
  BY <1>3
<1>10. end.terminated => status = "failed" /\ ~wasMeasured
  BY <1>3
<1>11. FeSound(result)
  <2> HIDE DEF status, wasMeasured, result
  <2> QED
    BY <1>6, <1>7, <1>8, <1>9, <1>10 DEF FeSound
<1> QED
  BY <1>6, <1>8, <1>11

\* A failed result is as sound as the result it was.
LEMMA FeFailedIsSound ==
    ASSUME NEW result \in FeResults, FeSound(result)
    PROVE  LET failed == [result EXCEPT !.status = "failed"]
           IN  /\ failed \in FeResults /\ failed.status = "failed" /\ FeSound(failed)
<1> DEFINE failed == [result EXCEPT !.status = "failed"]
<1>1. /\ failed \in FeResults /\ failed.status = "failed" /\ failed.run = result.run
      /\ failed.measured = result.measured /\ failed.terminated = result.terminated
  BY DEF FeResults
<1> HIDE DEF failed
<1>2. FeSound(failed)
  BY <1>1 DEF FeSound
<1> QED
  BY <1>1, <1>2 DEF failed

LEMMA FeReadKeeps ==
    ASSUME FeInv, NEW fault \in {"none", "summary", "provenance"}, FeRead(fault)
    PROVE  FeInv'
<1> DEFINE end == feEnds[front.run]
           result == FeResult(end)
           three == 3
           faulted == front.faulted \/ fault # "none"
           base == [FeBase EXCEPT !.status = "failed"]
           failed == [result EXCEPT !.status = "failed"]
<1>1. /\ front.at = "reads" /\ UNCHANGED <<feRequest, feEnds, kept, published, cmp>> /\ ~FeKind({"comparison"})
      /\ front \in FeFrontRows /\ front.exit = -1 /\ front.execute /\ end # FeNothing /\ end.code # 2
      /\ FeReconciled /\ (FeKind({"static", "native"}) => "commit" \notin feRequest.lacks)
      /\ front.paid => front.execute /\ feRequest.lacks = {} /\ FeReconciled
  BY DEF FeRead, FeKind, FeInv, FeSide, FeTypeOK, FePlaces, FeKindsApart, FeOutcome
<1>2. result \in FeResults /\ FeSound(result)
  BY <1>1, FeResultOfEnd
<1>3. failed \in FeResults /\ failed.status = "failed" /\ FeSound(failed)
  BY <1>2, FeFailedIsSound
<1>4. base \in FeResults /\ base.status = "failed" /\ FeSound(base)
  <2>1. FeSound(FeBase)
    BY FeTheBase DEF FeSound
  <2> QED
    BY <2>1, FeTheBase, FeFailedIsSound
<1>5. three = 3 /\ three \in {-1, 0, 2, 3} /\ faulted \in BOOLEAN /\ (fault # "none" => faulted)
  BY <1>1 DEF FeFrontRows
<1>6. \/ /\ \/ front' = [front EXCEPT !.at = "records", !.result = base, !.faulted = faulted]
            \/ front' = [front EXCEPT !.at = "records", !.result = failed, !.faulted = faulted]
            \/ front' = [front EXCEPT !.at = "over", !.exit = three, !.result = base, !.faulted = faulted]
            \/ front' = [front EXCEPT !.at = "over", !.exit = three, !.result = failed, !.faulted = faulted]
         /\ fault # "none" \/ FeKind({"benchmark"})
      \/ front' = [front EXCEPT !.at = "saves", !.result = result, !.faulted = faulted]
  <2>1. CASE fault = "summary" \/ (FeKind({"benchmark"}) /\ end.attempts # 1)
    BY <1>1, <2>1 DEF FeRead, FeFailed, FeLeaves, FeFrontRows
  <2>2. CASE ~(fault = "summary" \/ (FeKind({"benchmark"}) /\ end.attempts # 1)) /\ fault = "provenance"
    <3> HIDE DEF failed
    <3>1. FeFailed(result) = IF FeKind({"benchmark"}) THEN [front EXCEPT !.at = "records", !.result = failed]
                             ELSE [[front EXCEPT !.at = "over", !.exit = three] EXCEPT !.result = failed]
      BY DEF FeFailed, FeLeaves, failed
    <3>2. front' = [FeFailed(result) EXCEPT !.faulted = @ \/ fault # "none"]
      BY <2>2 DEF FeRead
    <3> QED
      BY <1>1, <2>2, <3>1, <3>2 DEF FeFrontRows
  <2>3. CASE ~(fault = "summary" \/ (FeKind({"benchmark"}) /\ end.attempts # 1)) /\ fault # "provenance"
    BY <1>1, <2>3 DEF FeRead, FeFrontRows
  <2> QED
    BY <2>1, <2>2, <2>3
<1> HIDE DEF end, result, three, faulted, base, failed
<1>7. /\ front' \in FeFrontRows /\ front'.run = front.run /\ front'.execute = front.execute /\ front'.paid = front.paid
      /\ front'.faulted = faulted
      /\ \/ /\ \/ front'.at = "records" /\ front'.exit = -1 /\ front'.result \in {base, failed}
               \/ front'.at = "over" /\ front'.exit = 3 /\ front'.result \in {base, failed}
            /\ fault # "none" \/ FeKind({"benchmark"})
         \/ front'.at = "saves" /\ front'.exit = -1 /\ front'.result = result
  <2>1. ASSUME NEW res \in FeResults, front' = [front EXCEPT !.at = "records", !.result = res, !.faulted = faulted]
        PROVE  /\ front' \in FeFrontRows /\ front'.run = front.run /\ front'.execute = front.execute /\ front'.paid = front.paid
               /\ front'.faulted = faulted /\ front'.at = "records" /\ front'.exit = -1 /\ front'.result = res
    BY <1>1, <1>5, <2>1 DEF FeFrontRows, FeAts
  <2>2. ASSUME NEW res \in FeResults, front' = [front EXCEPT !.at = "over", !.exit = three, !.result = res, !.faulted = faulted]
        PROVE  /\ front' \in FeFrontRows /\ front'.run = front.run /\ front'.execute = front.execute /\ front'.paid = front.paid
               /\ front'.faulted = faulted /\ front'.at = "over" /\ front'.exit = 3 /\ front'.result = res
    BY <1>1, <1>5, <2>2 DEF FeFrontRows, FeAts
  <2>3. CASE front' = [front EXCEPT !.at = "saves", !.result = result, !.faulted = faulted]
    BY <1>1, <1>2, <1>5, <2>3 DEF FeFrontRows, FeAts
  <2> QED
    BY <1>2, <1>3, <1>4, <1>6, <2>1, <2>2, <2>3
<1>8. front'.at \in {"records", "over", "saves"} /\ feEnds'[front'.run] = end
  BY <1>1, <1>7 DEF end
<1>9. FeSound(front'.result)
  BY <1>2, <1>3, <1>4, <1>7
<1>10. FePlaces'
  <2>1. FeResult(feEnds[front.run])' = result
    BY <1>1, <1>7 DEF FeResult, FeComplete, FeMeasured, FeKind, NativeComplete, BenchmarkComplete, AttemptRecord, result, end
  <2>2. front'.at = "saves" => front'.result = FeResult(feEnds[front.run])'
    BY <1>7, <2>1
  <2> QED
    BY <1>1, <1>3, <1>4, <1>5, <1>7, <1>8, <2>2 DEF FePlaces, FeReconciled, FeKind, Whole
<1>11. FeOutcome'
  BY <1>1, <1>5, <1>7, <1>8 DEF FeOutcome, FeReconciled, FeKind, Whole
<1> QED
  BY <1>1, <1>7, <1>8, <1>9, <1>10, <1>11, FeDiskLeftAlone

LEMMA FeRecordKeeps ==
    ASSUME FeInv, NEW fault \in BOOLEAN, FeRecord(fault)
    PROVE  FeInv'
<1> DEFINE exit == IF fault THEN 2 ELSE 3
<1>1. /\ front.at = "records" /\ UNCHANGED <<feRequest, feEnds, kept, cmp>> /\ ~FeKind({"comparison"})
      /\ front \in FeFrontRows /\ front.result.status = "failed" /\ published' \in {published, front.result}
      /\ front' = [front EXCEPT !.at = "over", !.exit = exit]
  BY DEF FeRecord, FeLeaves, FeKind, FeInv, FeSide, FeTypeOK, FePlaces, FeKindsApart
<1>2. exit \in {-1, 0, 2, 3} /\ exit # 0 /\ exit > 0
  OBVIOUS
<1> HIDE DEF exit
<1>3. /\ front' \in FeFrontRows /\ front'.run = front.run /\ front'.execute = front.execute /\ front'.paid = front.paid
      /\ front'.faulted = front.faulted /\ front'.at = "over" /\ front'.exit = exit /\ front'.result = front.result
      /\ front.result \in FeResults /\ front.run \in 1 .. FeRuns
  BY <1>1, <1>2 DEF FeFrontRows, FeAts
<1>4. FeTypeOK'
  BY <1>1, <1>3 DEF FeInv, FeSide, FeTypeOK
<1>5. FeRecordsSound'
  BY <1>1, <1>3 DEF FeInv, FeSide, FeRecordsSound, FeSound, Whole
<1>6. FeRunsInOrder'
  BY <1>1, <1>3 DEF FeInv, FeSide, FeRunsInOrder
<1>7. FePlaces'
  BY <1>3 DEF FePlaces
<1>8. FeOutcome'
  BY <1>1, <1>2, <1>3 DEF FeInv, FeSide, FePlaces, FeOutcome, Whole, FeReconciled, FeKind
<1>9. FeKindsApart'
  BY <1>1, <1>3 DEF FeInv, FeSide, FeKindsApart, FeKind
<1>10. CmSide'
  BY <1>1, <1>3, CmLeftAlone
<1> QED
  BY <1>4, <1>5, <1>6, <1>7, <1>8, <1>9, <1>10 DEF FeInv, FeSide

LEMMA FeSaveKeeps ==
    ASSUME FeInv, NEW fault \in BOOLEAN, FeSave(fault)
    PROVE  FeInv'
<1> DEFINE writes == FeKind({"benchmark"}) \/ front.execute
           failed == [front.result EXCEPT !.status = "failed"]
           exit == IF fault /\ writes THEN 3 ELSE FeExit(front.result)
           left == IF fault THEN FePart ELSE front.result
<1>1. /\ front.at = "saves" /\ UNCHANGED <<feRequest, feEnds, cmp>> /\ ~FeKind({"comparison"})
      /\ front \in FeFrontRows /\ front.exit = -1 /\ front.run \in 1 .. FeRuns
      /\ FeReconciled /\ (FeKind({"static", "native"}) => "commit" \notin feRequest.lacks)
      /\ front.paid => front.execute /\ feRequest.lacks = {} /\ FeReconciled
      /\ front.result \in FeResults /\ FeSound(front.result)
      /\ feRequest.kind \in {"static", "native", "benchmark"}
  BY FeAssumption DEF FeSave, FeKind, FeInv, FeSide, FeTypeOK, FePlaces, FeKindsApart, FeOutcome, FeFrontRows, FeRecordsSound
<1>2. failed \in FeResults /\ failed.status = "failed" /\ FeSound(failed)
  BY <1>1, FeFailedIsSound
<1>3. exit \in {-1, 0, 2, 3} /\ exit # -1 /\ (fault /\ writes => exit = 3)
      /\ (~(fault /\ writes) => (exit = 0 <=> front.result.status \in {"checked", "completed"}) /\ (exit > 0 <=> front.result.status = "failed"))
  BY <1>1 DEF FeExit, FeResults
<1>4. \/ front' = [front EXCEPT !.at = "records", !.result = failed, !.faulted = TRUE] /\ fault /\ writes /\ FeKind({"benchmark"})
      \/ front' = [front EXCEPT !.at = "over", !.exit = exit, !.result = failed, !.faulted = TRUE] /\ fault /\ writes
      \/ front' = [front EXCEPT !.at = "over", !.exit = exit] /\ ~(fault /\ writes)
  <2> HIDE DEF failed, writes
  <2>1. FeFailed(front.result) = IF FeKind({"benchmark"}) THEN [front EXCEPT !.at = "records", !.result = failed]
                                 ELSE [[front EXCEPT !.at = "over", !.exit = 3] EXCEPT !.result = failed]
    BY DEF FeFailed, FeLeaves, failed
  <2>2. front' = IF fault /\ writes THEN [FeFailed(front.result) EXCEPT !.faulted = TRUE] ELSE FeLeaves(FeExit(front.result))
    BY DEF FeSave, writes
  <2>3. CASE fault /\ writes
    BY <2>1, <2>2, <2>3
  <2>4. CASE ~(fault /\ writes)
    BY <2>2, <2>4 DEF FeLeaves
  <2> QED
    BY <2>3, <2>4
<1>5. /\ kept' = IF writes /\ FeKind({"static", "native"}) THEN [kept EXCEPT ![front.run] = left] ELSE kept
      /\ published' = IF ~fault /\ FeKind({"benchmark"}) THEN front.result ELSE published
  BY DEF FeSave, FePart
<1>6. left \in {FePart, front.result} /\ (~fault => left = front.result)
  OBVIOUS
<1>7. IF front.execute
      THEN /\ front.result.status \in {"completed", "failed"}
           /\ front.result.status = "completed" => Whole(feEnds[front.run])
           /\ Whole(feEnds[front.run]) => front.result.status = "completed" \/ FeKind({"benchmark"})
      ELSE front.result = FeBase
  <2>1. CASE front.execute
    <3>1. feEnds[front.run] # FeNothing /\ feEnds[front.run].code # 2 /\ front.result = FeResult(feEnds[front.run])
      BY <1>1, <2>1 DEF FeInv, FeSide, FePlaces
    <3> QED
      BY <1>1, <2>1, <3>1, FeResultOfEnd
  <2>2. CASE ~front.execute
    BY <1>1, <2>2 DEF FeInv, FeSide, FePlaces
  <2> QED
    BY <2>1, <2>2
<1> HIDE DEF failed, exit, left
<1>8. /\ front' \in FeFrontRows /\ front'.run = front.run /\ front'.execute = front.execute /\ front'.paid = front.paid
      /\ \/ /\ front'.at = "records" /\ front'.exit = -1 /\ front'.result = failed /\ front'.faulted
            /\ fault /\ writes
         \/ front'.at = "over" /\ front'.exit = exit /\ front'.result = failed /\ front'.faulted /\ fault /\ writes
         \/ front'.at = "over" /\ front'.exit = exit /\ front'.result = front.result /\ ~(fault /\ writes)
  BY <1>1, <1>2, <1>3, <1>4 DEF FeFrontRows, FeAts
<1>9. front'.at \in {"records", "over"} /\ front'.result \in {failed, front.result}
  BY <1>8
<1>10. FeTypeOK'
  BY <1>1, <1>5, <1>6, <1>8 DEF FeInv, FeSide, FeTypeOK
<1>11. FeRecordsSound'
  <2>1. \A told : FeSound(told)' <=> FeSound(told)
    BY <1>1 DEF FeSound, Whole
  <2>2. FeSound(front'.result)
    BY <1>1, <1>2, <1>9
  <2>3. published' \in FeResults => FeSound(published')
    BY <1>1, <1>5 DEF FeInv, FeSide, FeRecordsSound
  <2>4. \A r \in 1 .. FeRuns : kept'[r] \in FeResults => FeSound(kept'[r])
    BY <1>1, <1>5, <1>6, FeNothingApart DEF FeInv, FeSide, FeTypeOK, FeRecordsSound
  <2> QED
    BY <1>1, <2>2, <2>3, <2>4 DEF FeRecordsSound, FeSound, Whole
<1>12. FeRunsInOrder'
  BY <1>1, <1>8, <1>9 DEF FeInv, FeSide, FeRunsInOrder
<1>13. FePlaces'
  BY <1>1, <1>2, <1>8, <1>9 DEF FePlaces, FeReconciled, FeKind, Whole
<1>14. FeOutcome'
  <2>1. front'.paid => front'.execute /\ feRequest'.lacks = {} /\ FeReconciled'
    BY <1>1, <1>8 DEF FeReconciled
  <2>2. ASSUME front'.exit = 0
        PROVE  IF front'.execute THEN Whole(feEnds'[front'.run]) /\ FeRecordOf(front.run)' = front'.result
               ELSE ~front'.paid /\ (FeKind({"benchmark"})' => published' = front'.result)
    <3>1. ~(fault /\ writes) /\ front'.result = front.result /\ front.result.status \in {"checked", "completed"}
      BY <1>3, <1>8, <2>2
    <3>2. CASE front.execute
      <4>1. Whole(feEnds'[front'.run])
        BY <1>1, <1>7, <1>8, <3>1, <3>2
      <4>2. ~fault /\ writes
        BY <3>1, <3>2
      <4>3. CASE FeKind({"benchmark"})
        BY <1>1, <1>5, <1>8, <3>1, <3>2, <4>1, <4>2, <4>3 DEF FeRecordOf, FeKind
      <4>4. CASE ~FeKind({"benchmark"})
        <5>1. FeKind({"static", "native"})
          BY <1>1, <4>4 DEF FeKind
        <5>2. kept'[front.run] = front.result
          BY <1>1, <1>5, <1>6, <4>2, <5>1 DEF FeInv, FeSide, FeTypeOK
        <5> QED
          BY <1>1, <1>8, <3>1, <3>2, <4>1, <4>4, <5>2 DEF FeRecordOf, FeKind
      <4> QED
        BY <4>3, <4>4
    <3>3. CASE ~front.execute
      BY <1>1, <1>5, <1>8, <3>1, <3>3 DEF FeKind
    <3> QED
      BY <3>2, <3>3
  <2>3. ASSUME front'.exit > 0, front'.execute, Whole(feEnds'[front'.run])
        PROVE  front'.faulted \/ FeKind({"benchmark"})
    <3>1. Whole(feEnds[front.run]) /\ front.execute
      BY <1>1, <1>8, <2>3
    <3>2. front.result.status = "completed" \/ FeKind({"benchmark"})
      BY <1>7, <3>1
    <3> QED
      BY <1>3, <1>8, <2>3, <3>2
  <2> QED
    BY <1>1, <2>1, <2>2, <2>3 DEF FeOutcome, FeKind, Whole
<1>15. FeKindsApart'
  BY <1>1, <1>9 DEF FeInv, FeSide, FeKindsApart, FeKind
<1>16. CmSide'
  BY <1>1, <1>9, CmLeftAlone
<1> QED
  BY <1>10, <1>11, <1>12, <1>13, <1>14, <1>15, <1>16 DEF FeInv, FeSide

LEMMA FeKilledKeeps == FeInv /\ FeKilled => FeInv'
<1> SUFFICES ASSUME FeInv, FeKilled PROVE FeInv'
  OBVIOUS
<1>1. /\ front.at \notin {"over", "killed"} /\ UNCHANGED <<feRequest, feEnds, published, cmp>>
      /\ front \in FeFrontRows /\ front.exit = -1 /\ front.run \in 1 .. FeRuns
      /\ front' = [front EXCEPT !.at = "killed"]
      /\ kept' = kept \/ (kept' = [kept EXCEPT ![front.run] = FePart] /\ ~FeKind({"comparison"}))
  BY DEF FeKilled, FeKind, FePart, FeInv, FeSide, FeTypeOK, FePlaces, FeFrontRows
<1>2. /\ front' \in FeFrontRows /\ front'.run = front.run /\ front'.execute = front.execute /\ front'.paid = front.paid
      /\ front'.faulted = front.faulted /\ front'.at = "killed" /\ front'.exit = -1 /\ front'.result = front.result
  BY <1>1 DEF FeFrontRows, FeAts
<1>3. FeTypeOK'
  BY <1>1, <1>2 DEF FeInv, FeSide, FeTypeOK
<1>4. \A r \in 1 .. FeRuns : kept'[r] = kept[r] \/ kept'[r] = FePart
  BY <1>1 DEF FeInv, FeSide, FeTypeOK
<1>5. FeRecordsSound'
  BY <1>1, <1>2, <1>4, FeNothingApart DEF FeInv, FeSide, FeRecordsSound, FeSound, Whole
<1>6. FeRunsInOrder'
  BY <1>1, <1>2 DEF FeInv, FeSide, FeRunsInOrder
<1>7. FePlaces' /\ FeOutcome'
  BY <1>1, <1>2 DEF FeInv, FeSide, FePlaces, FeOutcome, FeReconciled
<1>8. FeKindsApart'
  BY <1>1, <1>2 DEF FeInv, FeSide, FeKindsApart, FeKind
<1>9. CmSide'
  <2>1. cmp' = cmp /\ Reached' = Reached
    BY <1>1 DEF Reached
  <2>2. CmPrepared => CmPrepared'
    BY <1>1, <2>1 DEF CmPrepared, CmFirst, CmStartedInOrder
  <2>3. CmFileTells => CmFileTells'
    BY <1>1, <1>2 DEF CmFileTells, CmStarted, CmEndOf
  <2> QED
    BY <1>1, <1>2, <2>2, <2>3 DEF FeInv, CmSide, CmWhere
<1> QED
  BY <1>3, <1>5, <1>6, <1>7, <1>8, <1>9 DEF FeInv, FeSide

LEMMA FeAgainKeeps ==
    ASSUME FeInv, NEW execute \in BOOLEAN, FeAgain(execute)
    PROVE  FeInv'
<1> DEFINE next == front.run + 1
           minus == -1
<1>1. /\ front.at \in {"over", "killed"} /\ UNCHANGED <<feRequest, feEnds, kept, published, cmp>> /\ ~FeKind({"comparison"})
      /\ front \in FeFrontRows /\ front.run \in 1 .. FeRuns /\ front.run < FeRuns
  BY DEF FeAgain, FeKind, FeInv, FeSide, FeTypeOK, FeFrontRows
<1>2. next \in 1 .. FeRuns /\ next > front.run /\ next # front.run /\ minus \in {-1, 0, 2, 3} /\ minus = -1
  BY <1>1, FeAssumption
<1>3. front' = [run |-> next, execute |-> execute, at |-> "load", paid |-> FALSE, faulted |-> FALSE, result |-> FeBase, exit |-> minus]
  BY DEF FeAgain, FeCommand
<1> HIDE DEF next, minus
<1>4. /\ front' \in FeFrontRows /\ front'.at = "load" /\ ~front'.paid /\ front'.result = FeBase /\ front'.exit = -1 /\ front'.run = next
  BY <1>2, <1>3, FeTheBase DEF FeFrontRows, FeAts
<1>5. \A r \in 1 .. FeRuns : feEnds[r] # FeNothing => r < next
  BY <1>1, <1>2 DEF FeInv, FeSide, FeRunsInOrder
<1>6. feEnds[next] = FeNothing
  BY <1>2, <1>5
<1>7. FeTypeOK'
  BY <1>1, <1>4 DEF FeInv, FeSide, FeTypeOK
<1>8. FeRecordsSound'
  <2>1. FeSound(FeBase)
    BY FeTheBase DEF FeSound
  <2> QED
    BY <1>1, <1>4, <2>1 DEF FeInv, FeSide, FeRecordsSound, FeSound, Whole
<1>9. FeRunsInOrder' /\ FePlaces' /\ FeOutcome'
  BY <1>1, <1>4, <1>5, <1>6 DEF FeRunsInOrder, FePlaces, FeOutcome
<1>10. FeKindsApart'
  BY <1>1, <1>4 DEF FeInv, FeSide, FeKindsApart, FeKind
<1>11. CmSide'
  BY <1>1, <1>4, CmLeftAlone
<1> QED
  BY <1>7, <1>8, <1>9, <1>10, <1>11 DEF FeInv, FeSide

-----------------------------------------------------------------------------
\* Steps of the comparison: the other side only sees the process move.
LEMMA CmFrontMoves ==
    ASSUME FeInv, FeKind({"comparison"}), UNCHANGED <<feRequest, feEnds, kept, published>>,
           NEW place \in {"next", "starts", "ended", "over"}, NEW code \in {-1, 0, 2}, place # "over" => code = -1,
           front' = [front EXCEPT !.at = place, !.exit = code]
    PROVE  FeSide' /\ front'.at = place /\ front'.exit = code /\ front'.execute = front.execute
<1>1. /\ front \in FeFrontRows /\ front.run \in 1 .. FeRuns /\ ~front.paid /\ front.result = FeBase
      /\ published = FeNothing /\ \A r \in 1 .. FeRuns : feEnds[r] = FeNothing /\ kept[r] = FeNothing
  BY DEF FeInv, FeSide, FeTypeOK, FeFrontRows, FeKindsApart
<1>2. /\ front' \in FeFrontRows /\ front'.run = front.run /\ front'.execute = front.execute /\ front'.paid = front.paid
      /\ front'.faulted = front.faulted /\ front'.at = place /\ front'.exit = code /\ front'.result = front.result
  BY <1>1 DEF FeFrontRows, FeAts
<1>3. FeTypeOK'
  BY <1>2 DEF FeInv, FeSide, FeTypeOK
<1>4. FeRecordsSound'
  BY <1>2 DEF FeInv, FeSide, FeRecordsSound, FeSound, Whole
<1>5. FeRunsInOrder'
  BY <1>1, <1>2 DEF FeRunsInOrder
<1>6. FePlaces' /\ FeOutcome'
  BY <1>1, <1>2 DEF FePlaces, FeOutcome, FeKind, Whole
<1>7. FeKindsApart'
  BY <1>1, <1>2 DEF FeKindsApart, FeKind
<1> QED
  BY <1>2, <1>3, <1>4, <1>5, <1>6, <1>7 DEF FeSide

\* The process goes on, or it ends with an exit code.
LEMMA CmGoesOn ==
    ASSUME FeInv, FeKind({"comparison"}), UNCHANGED <<feRequest, feEnds, kept, published>>, front.exit = -1,
           NEW place \in {"next", "starts", "ended"}, front' = [front EXCEPT !.at = place]
    PROVE  FeSide' /\ front'.at = place /\ front'.exit = -1 /\ front'.execute = front.execute
<1> DEFINE code == -1
<1>1. front' = [front EXCEPT !.at = place, !.exit = code]
  BY DEF FeInv, FeSide, FeTypeOK, FeFrontRows
<1>2. code \in {-1, 0, 2} /\ code = -1 /\ place \in {"next", "starts", "ended", "over"} /\ place # "over"
  OBVIOUS
<1> HIDE DEF code
<1> QED
  BY <1>1, <1>2, CmFrontMoves

LEMMA CmLeaves ==
    ASSUME FeInv, FeKind({"comparison"}), UNCHANGED <<feRequest, feEnds, kept, published>>,
           NEW code \in {0, 2}, front' = FeLeaves(code)
    PROVE  FeSide' /\ front'.at = "over" /\ front'.exit = code /\ front'.execute = front.execute
<1> DEFINE place == "over"
<1>1. front' = [front EXCEPT !.at = place, !.exit = code]
  BY DEF FeLeaves
<1>2. place \in {"next", "starts", "ended", "over"} /\ place = "over" /\ code \in {-1, 0, 2}
  OBVIOUS
<1> HIDE DEF place
<1> QED
  BY <1>1, <1>2, CmFrontMoves

\* The facts of a comparison under way.
LEMMA CmFacts ==
    ASSUME FeInv, front.at \in {"next", "starts", "ended"}
    PROVE  /\ FeKind({"comparison"}) /\ front \in FeFrontRows /\ front.exit = -1
           /\ cmp \in CmRows /\ cmp.file \in CmFiles /\ CmPrepared /\ CmWhere /\ CmFileTells
           /\ cmp.order \in Seq(FeConditions) /\ cmp.started \in Seq(FeConditions) /\ cmp.status \in CmStatuses
           /\ cmp.ends \in [FeConditions -> CmEntries] /\ cmp.available \subseteq FeConditions
           /\ DOMAIN cmp.status \subseteq FeConditions /\ IsFiniteSet(DOMAIN cmp.status)
           /\ Len(cmp.order) \in Nat /\ Reached \in Nat
<1>1. FeKind({"comparison"}) /\ front \in FeFrontRows /\ front.exit = -1
  BY DEF FeInv, FeSide, FeKindsApart, FeTypeOK, FePlaces
<1>2. cmp \in CmRows /\ cmp.file # FeNothing /\ CmPrepared /\ CmWhere /\ CmFileTells
  BY DEF FeInv, CmSide
<1>3. cmp.file \in CmFiles /\ cmp.order \in Seq(FeConditions) /\ cmp.started \in Seq(FeConditions) /\ cmp.status \in CmStatuses
      /\ cmp.ends \in [FeConditions -> CmEntries] /\ cmp.available \subseteq FeConditions
  BY <1>2 DEF CmRows
<1>4. DOMAIN cmp.status \subseteq FeConditions
  BY <1>3 DEF CmStatuses
<1>5. IsFiniteSet(DOMAIN cmp.status)
  BY <1>4, FeAssumption, FS_Subset
<1>6. Len(cmp.order) \in Nat /\ Reached \in Nat
  BY <1>2, <1>3 DEF CmPrepared
<1> QED
  BY <1>1, <1>2, <1>3, <1>4, <1>5, <1>6

\* An entry for a condition, new or old.
LEMMA CmEnteredTyped ==
    ASSUME cmp.status \in CmStatuses, NEW c \in FeConditions, NEW says \in CmEntries
    PROVE  /\ Entered(c, says) \in CmStatuses /\ DOMAIN Entered(c, says) = DOMAIN cmp.status \cup {c}
           /\ Entered(c, says)[c] = says
           /\ \A d \in DOMAIN cmp.status : d # c => Entered(c, says)[d] = cmp.status[d]
<1>1. PICK D \in SUBSET FeConditions : cmp.status \in [D -> CmEntries]
  BY DEF CmStatuses
<1>2. Entered(c, says) \in [D \cup {c} -> CmEntries] /\ DOMAIN cmp.status = D
  BY <1>1 DEF Entered
<1>3. D \cup {c} \in SUBSET FeConditions
  OBVIOUS
<1>4. Entered(c, says) \in CmStatuses
  BY <1>2, <1>3 DEF CmStatuses
<1> QED
  BY <1>2, <1>4 DEF Entered

\* A comparison that ends at once leaves its files as they are.
LEMMA CmFilesStay ==
    ASSUME CmSide, cmp' = cmp, front'.at \notin {"load", "next", "starts", "ended"},
           front'.exit = 0 => ~front'.execute
    PROVE  CmSide'
<1>1. cmp' = cmp /\ Reached' = Reached
  BY DEF Reached
<1>2. CmPrepared => CmPrepared'
  <2>1. CmFirst(Reached)' = CmFirst(Reached)
    BY <1>1 DEF CmFirst
  <2>2. CmStartedInOrder => CmStartedInOrder'
    BY <1>1 DEF CmStartedInOrder
  <2> QED
    BY <1>1, <2>1, <2>2 DEF CmPrepared
<1>3. CmFileTells => CmFileTells'
  BY <1>1 DEF CmFileTells, CmStarted, CmEndOf
<1> QED
  BY <1>1, <1>2, <1>3 DEF CmSide, CmWhere

LEMMA CmPrepareKeeps ==
    ASSUME FeInv, NEW order \in SetToSeqs(FeConditions), NEW available \in SUBSET FeConditions, NEW fault \in BOOLEAN,
           CmPrepare(order, available, fault)
    PROVE  FeInv'
<1> DEFINE task == SelectedTask(cmp.evidence)
           first == [finished |-> FALSE, of |-> CmNoStatus]
<1>1. front.at = "load" /\ FeKind({"comparison"}) /\ UNCHANGED <<feRequest, feEnds, kept, published>>
      /\ front \in FeFrontRows /\ front.exit = -1 /\ cmp \in CmRows /\ CmSide /\ cmp.started = <<>>
  BY DEF CmPrepare, FeInv, FeSide, FeTypeOK, FePlaces, CmSide
<1>2. \/ front' = FeLeaves(2) /\ cmp' = cmp
      \/ front' = FeLeaves(0) /\ cmp' = cmp /\ ~front.execute
      \/ /\ front' = [front EXCEPT !.at = "next"]
         /\ cmp' = [cmp EXCEPT !.order = order, !.available = available, !.task = task,
                               !.status = CmNoStatus, !.file = first]
  BY DEF CmPrepare
<1>4. first \in CmFiles /\ ~first.finished /\ first.of = CmNoStatus /\ first # FeNothing
  <2> DEFINE b == FALSE
  <2>1. b \in BOOLEAN /\ ~b /\ first = [finished |-> b, of |-> CmNoStatus]
    OBVIOUS
  <2> HIDE DEF b, first
  <2>2. first \in CmFiles /\ ~first.finished /\ first.of = CmNoStatus
    BY <2>1, CmNoStatusTyped DEF CmFiles
  <2> QED
    BY <2>2, FeNothingApart
<1>5. /\ order \in Seq(FeConditions) /\ Len(order) = Cardinality(FeConditions) /\ Len(order) \in Nat
      /\ \A i, j \in 1 .. Len(order) : order[i] = order[j] => i = j
  <2>1. Cardinality(FeConditions) \in Nat
    BY FeAssumption, FS_CardinalityType
  <2>2. order \in [1 .. Cardinality(FeConditions) -> FeConditions]
        /\ \A i, j \in 1 .. Cardinality(FeConditions) : i # j => order[i] # order[j]
    BY DEF SetToSeqs
  <2>3. order \in Seq(FeConditions) /\ Len(order) = Cardinality(FeConditions)
    BY <2>1, <2>2
  <2> QED
    BY <2>1, <2>2, <2>3
<1>6. task \in {SelectedTask(e) : e \in FeEvidence} \cup {"none"} /\ task = SelectedTask(cmp.evidence)
  BY <1>1 DEF CmRows
<1> HIDE DEF task, first
<1>7. CASE front' = FeLeaves(2) /\ cmp' = cmp
  <2>1. FeSide' /\ front'.at = "over" /\ front'.exit = 2
    BY <1>1, <1>7, CmLeaves
  <2> QED
    BY <1>1, <1>7, <2>1, CmFilesStay DEF FeInv
<1>8. CASE front' = FeLeaves(0) /\ cmp' = cmp /\ ~front.execute
  <2>1. FeSide' /\ front'.at = "over" /\ ~front'.execute
    BY <1>1, <1>8, CmLeaves
  <2> QED
    BY <1>1, <1>8, <2>1, CmFilesStay DEF FeInv
<1>9. CASE /\ front' = [front EXCEPT !.at = "next"]
           /\ cmp' = [cmp EXCEPT !.order = order, !.available = available, !.task = task,
                                 !.status = CmNoStatus, !.file = first]
  <2>1. FeSide' /\ front'.at = "next" /\ front'.exit = -1
    BY <1>1, <1>9, CmGoesOn
  <2>2. /\ cmp' \in CmRows /\ cmp'.order = order /\ cmp'.available = available /\ cmp'.task = task
        /\ cmp'.status = CmNoStatus /\ cmp'.file = first /\ cmp'.started = <<>> /\ cmp'.evidence = cmp.evidence
    BY <1>1, <1>4, <1>5, <1>6, <1>9, CmNoStatusTyped DEF CmRows
  <2>3. Len(cmp'.started) = 0 /\ Reached' = 0 /\ DOMAIN cmp'.status = {}
    BY <2>2, CmNoStatusTyped DEF Reached
  <2>4. CmFirst(0)' = {} /\ CmStarted' = {} /\ DOMAIN cmp'.started = {}
    BY <2>2 DEF CmFirst, CmStarted
  <2>5. CmPrepared'
    BY <1>5, <1>6, <2>2, <2>3, <2>4 DEF CmPrepared, CmStartedInOrder, CmFirst
  <2>6. CmWhere'
    BY <1>4, <2>1, <2>2, <2>3, <2>4 DEF CmWhere, CmFirst
  <2>7. CmFileTells'
    BY <1>4, <2>1, <2>2, <2>3, <2>4 DEF CmFileTells
  <2>8. cmp'.file # FeNothing
    BY <1>4, <2>2
  <2> QED
    BY <2>1, <2>2, <2>5, <2>6, <2>7, <2>8 DEF FeInv, CmSide
<1> QED
  BY <1>2, <1>7, <1>8, <1>9

-----------------------------------------------------------------------------
\* A write of the status that fails: the file stays, the command ends.
LEMMA CmWriteFails ==
    ASSUME FeInv, front.at \in {"next", "starts", "ended"}, NEW status, NEW place, CmWrites(status, place, TRUE),
           status \in CmStatuses, CmPrepared'
    PROVE  FeInv'
<1>1. FeSide' /\ front'.at = "over" /\ front'.exit = 2
  <2>1. front' = FeLeaves(2) /\ UNCHANGED <<feRequest, feEnds, kept, published>>
    BY DEF CmWrites
  <2> QED
    BY <2>1, CmFacts, CmLeaves
<1>2. /\ cmp' \in CmRows /\ cmp'.file = cmp.file /\ cmp'.ends = cmp.ends /\ cmp'.started = cmp.started
      /\ cmp'.available = cmp.available
  BY CmFacts DEF CmWrites, CmRows
<1>3. CmFileTells'
  BY <1>1, <1>2, CmFacts DEF CmFileTells, CmStarted, CmEndOf
<1>4. cmp'.file # FeNothing
  BY <1>2, CmFacts, FeNothingApart
<1> QED
  BY <1>1, <1>2, <1>3, <1>4 DEF FeInv, CmSide, CmWhere

\* One that succeeds: the file says what the status says.
LEMMA CmWriteSaves ==
    ASSUME FeInv, front.at \in {"next", "starts", "ended"}, NEW status, NEW place \in {"next", "starts", "ended"},
           CmWrites(status, place, FALSE), status \in CmStatuses
    PROVE  /\ FeSide' /\ front'.at = place /\ front'.exit = -1 /\ cmp' \in CmRows
           /\ cmp'.file # FeNothing /\ cmp'.file.of = status /\ ~cmp'.file.finished /\ cmp'.status = status
           /\ cmp'.ends = cmp.ends /\ cmp'.started = cmp.started /\ cmp'.available = cmp.available
           /\ cmp'.order = cmp.order /\ cmp'.task = cmp.task /\ cmp'.evidence = cmp.evidence
<1> DEFINE no == FALSE
           file == [finished |-> no, of |-> status]
<1>1. no \in BOOLEAN /\ ~no
  OBVIOUS
<1>2. FeSide' /\ front'.at = place /\ front'.exit = -1
  <2>1. front' = [front EXCEPT !.at = place] /\ UNCHANGED <<feRequest, feEnds, kept, published>>
    BY DEF CmWrites
  <2> QED
    BY <2>1, CmFacts, CmGoesOn
<1>3. cmp' = [cmp EXCEPT !.status = status, !.file = file]
  BY DEF CmWrites
<1> HIDE DEF no
<1>4. file \in CmFiles /\ file.of = status /\ ~file.finished
  BY <1>1 DEF CmFiles
<1> HIDE DEF file
<1>5. file # FeNothing
  BY <1>4, FeNothingApart
<1>6. /\ cmp'.file = file /\ cmp'.status = status
      /\ cmp'.ends = cmp.ends /\ cmp'.started = cmp.started /\ cmp'.available = cmp.available
      /\ cmp'.order = cmp.order /\ cmp'.task = cmp.task /\ cmp'.evidence = cmp.evidence
  BY <1>3, CmFacts DEF CmRows
<1>7. cmp' \in CmRows
  BY <1>3, <1>4, CmFacts DEF CmRows
<1> QED
  BY <1>2, <1>4, <1>5, <1>6, <1>7

\* Whoever was started stays started in order.
LEMMA CmOrderKept ==
    ASSUME CmStartedInOrder, cmp'.order = cmp.order, cmp'.started = cmp.started, cmp'.available = cmp.available
    PROVE  CmStartedInOrder'
  BY DEF CmStartedInOrder

\* The next condition of the order is a new one.
LEMMA CmNextIsNew ==
    ASSUME FeInv, front.at = "next", Reached < Len(cmp.order)
    PROVE  /\ cmp.order[Reached + 1] \in FeConditions /\ cmp.order[Reached + 1] \notin DOMAIN cmp.status
           /\ CmFirst(Reached + 1) = CmFirst(Reached) \cup {cmp.order[Reached + 1]}
           /\ Cardinality(DOMAIN cmp.status \cup {cmp.order[Reached + 1]}) = Reached + 1
           /\ Reached + 1 \in 1 .. Len(cmp.order)
<1> DEFINE n == Reached
           N == Len(cmp.order)
           order == cmp.order
<1>1. n \in Nat /\ N \in Nat /\ n < N /\ order \in Seq(FeConditions) /\ DOMAIN cmp.status = CmFirst(n)
      /\ \A i, j \in 1 .. N : order[i] = order[j] => i = j
  BY CmFacts DEF CmPrepared
<1>2. n + 1 \in 1 .. N /\ order[n + 1] \in FeConditions
  BY <1>1
<1>3. order[n + 1] \notin CmFirst(n)
  <2>1. \A m \in 1 .. n : m \in 1 .. N /\ m # n + 1
    BY <1>1
  <2> QED
    BY <1>1, <1>2, <2>1 DEF CmFirst
<1>4. CmFirst(n + 1) = CmFirst(n) \cup {order[n + 1]}
  <2>1. 1 .. (n + 1) = (1 .. n) \cup {n + 1}
    BY <1>1
  <2> QED
    BY <2>1 DEF CmFirst
<1>5. Cardinality(DOMAIN cmp.status \cup {order[n + 1]}) = n + 1
  <2>1. \A S, x : IsFiniteSet(S) /\ x \notin S => Cardinality(S \cup {x}) = Cardinality(S) + 1
    BY FS_AddElement
  <2>2. IsFiniteSet(DOMAIN cmp.status) /\ order[n + 1] \notin DOMAIN cmp.status
    BY <1>1, <1>3, CmFacts
  <2>3. Cardinality(DOMAIN cmp.status) = n
    BY DEF Reached
  <2> HIDE DEF n, order
  <2> QED
    BY <2>1, <2>2, <2>3
<1> QED
  BY <1>1, <1>2, <1>3, <1>4, <1>5

LEMMA CmNextKeeps ==
    ASSUME FeInv, NEW fault \in BOOLEAN, CmNext(fault)
    PROVE  FeInv'
<1> PICK c : c = cmp.order[Reached + 1]
  OBVIOUS
<1> DEFINE says == IF c \in cmp.available THEN "starting" ELSE "unavailable"
           place == IF c \in cmp.available THEN "starts" ELSE "next"
           status == Entered(c, says)
<1>1. front.at = "next" /\ Reached < Len(cmp.order) /\ CmWrites(status, place, fault)
  BY DEF CmNext
<1>2. /\ c \in FeConditions /\ c \notin DOMAIN cmp.status /\ CmFirst(Reached + 1) = CmFirst(Reached) \cup {c}
      /\ Cardinality(DOMAIN cmp.status \cup {c}) = Reached + 1 /\ Reached + 1 \in 1 .. Len(cmp.order)
  BY <1>1, CmNextIsNew
<1>3. says \in CmEntries /\ place \in {"next", "starts", "ended"}
  BY DEF CmEntries
<1>4. /\ status \in CmStatuses /\ DOMAIN status = DOMAIN cmp.status \cup {c} /\ status[c] = says
      /\ \A d \in DOMAIN cmp.status : status[d] = cmp.status[d]
  <2>1. cmp.status \in CmStatuses
    BY <1>1, CmFacts
  <2> HIDE DEF says
  <2>2. /\ Entered(c, says) \in CmStatuses /\ DOMAIN Entered(c, says) = DOMAIN cmp.status \cup {c}
        /\ Entered(c, says)[c] = says
        /\ \A d \in DOMAIN cmp.status : d # c => Entered(c, says)[d] = cmp.status[d]
    <3>1. c \in FeConditions /\ says \in CmEntries
      BY <1>2, <1>3
    <3> QED
      BY ONLY <2>1, <3>1, CmEnteredTyped
  <2> QED
    BY <1>2, <2>2
<1>5. /\ cmp'.status = status /\ cmp'.order = cmp.order /\ cmp'.available = cmp.available /\ cmp'.started = cmp.started
      /\ cmp'.task = cmp.task /\ cmp'.evidence = cmp.evidence /\ cmp'.ends = cmp.ends
  BY <1>1, CmFacts DEF CmWrites, CmRows
<1>6. Reached' = Reached + 1 /\ CmFirst(Reached)' = CmFirst(Reached + 1) /\ DOMAIN cmp'.status = CmFirst(Reached + 1)
      /\ CmStarted' = CmStarted
  <2>1. Reached' = Reached + 1
    BY <1>2, <1>4, <1>5 DEF Reached
  <2>2. DOMAIN cmp.status = CmFirst(Reached)
    BY <1>1, CmFacts DEF CmPrepared
  <2>3. CmFirst(Reached)' = CmFirst(Reached + 1)
    BY <1>5, <2>1 DEF CmFirst
  <2>4. CmStarted' = CmStarted
    BY <1>5 DEF CmStarted
  <2>5. DOMAIN cmp'.status = CmFirst(Reached + 1)
    BY <1>2, <1>4, <1>5, <2>2
  <2> QED
    BY <2>1, <2>3, <2>4, <2>5
<1>7. CmPrepared'
  <2>1. CmPrepared /\ Len(cmp.order) \in Nat
    BY <1>1, CmFacts
  <2>2. CmStartedInOrder'
    BY <1>5, <2>1, CmOrderKept DEF CmPrepared
  <2> QED
    BY <1>2, <1>5, <1>6, <2>1, <2>2 DEF CmPrepared
<1>8. CASE fault
  <2> HIDE DEF status, place
  <2> QED
    BY <1>1, <1>4, <1>7, <1>8, CmWriteFails
<1>9. CASE ~fault
  <2>1. /\ FeSide' /\ front'.at = place /\ front'.exit = -1 /\ cmp' \in CmRows
        /\ cmp'.file # FeNothing /\ cmp'.file.of = status /\ ~cmp'.file.finished
    <3> HIDE DEF status, place
    <3> QED
      BY <1>1, <1>3, <1>4, <1>9, CmWriteSaves
  <2>2. /\ CmStarted = CmFirst(Reached) \cap cmp.available /\ DOMAIN cmp.status = CmFirst(Reached) /\ Reached \in Nat
        /\ \A d \in DOMAIN cmp.status : cmp.status[d] = CmEndOf(d)
    BY <1>1, CmFacts DEF CmWhere, CmPrepared
  <2>3. \A d \in DOMAIN cmp.status : status[d] = CmEndOf(d)' /\ d # c
    BY <1>2, <1>4, <1>5, <2>2 DEF CmEndOf
  <2>4. CmFileTells'
    BY <1>4, <1>5, <1>6, <2>1, <2>2, <2>3 DEF CmFileTells, CmEndOf
  <2>5. CASE c \in cmp.available
    <3>1. front'.at = "starts" /\ status[c] = "starting" /\ cmp'.order[Reached'] = c
      BY <1>4, <1>5, <1>6, <2>1, <2>5
    <3>2. CmFirst(Reached - 1)' = CmFirst(Reached)
      BY <1>5, <1>6, <2>2 DEF CmFirst
    <3> HIDE DEF status
    <3>3. CmWhere'
      BY <1>4, <1>5, <1>6, <2>1, <2>2, <2>3, <2>5, <3>1, <3>2 DEF CmWhere
    <3> QED
      BY <1>7, <2>1, <2>4, <3>1, <3>3 DEF FeInv, CmSide
  <2>6. CASE c \notin cmp.available
    <3>1. front'.at = "next" /\ status[c] = "unavailable" /\ CmEndOf(c)' = "unavailable"
      BY <1>4, <1>5, <2>1, <2>6 DEF CmEndOf
    <3> HIDE DEF status
    <3>2. CmFirst(Reached + 1) \cap cmp.available = CmFirst(Reached) \cap cmp.available
      BY <1>2, <2>6
    <3>3. \A d \in DOMAIN status : status[d] = CmEndOf(d)'
      BY <1>4, <2>3, <3>1
    <3>4. CmWhere'
      BY <1>4, <1>5, <1>6, <2>1, <2>2, <3>1, <3>2, <3>3 DEF CmWhere
    <3> QED
      BY <1>7, <2>1, <2>4, <3>1, <3>4 DEF FeInv, CmSide
  <2> QED
    BY <2>5, <2>6
<1> QED
  BY <1>8, <1>9

LEMMA CmRunKeeps ==
    ASSUME FeInv, NEW end \in {"recorded", "raised"}, CmRun(end)
    PROVE  FeInv'
<1> PICK c : c = cmp.order[Reached]
  OBVIOUS
<1> DEFINE status == Entered(c, end)
           N == Len(cmp.started)
<1>1. /\ front.at = "starts" /\ front' = [front EXCEPT !.at = "ended"] /\ UNCHANGED <<feRequest, feEnds, kept, published>>
      /\ cmp' = [cmp EXCEPT !.started = Append(@, c), !.ends = [@ EXCEPT ![c] = end], !.status = status]
  BY DEF CmRun
<1>2. /\ Reached > 0 /\ Reached \in Nat /\ Reached \in 1 .. Len(cmp.order) /\ Len(cmp.order) \in Nat
      /\ c \in FeConditions /\ c \in cmp.available /\ c \in DOMAIN cmp.status
      /\ DOMAIN cmp.status = CmFirst(Reached) /\ CmPrepared /\ CmWhere /\ CmFileTells
      /\ cmp.file # FeNothing /\ cmp.file.of = cmp.status /\ ~cmp.file.finished
      /\ CmStarted = CmFirst(Reached - 1) \cap cmp.available
      /\ \A d \in DOMAIN cmp.status : cmp.status[d] = IF d = c THEN "starting" ELSE CmEndOf(d)
  <2>1. /\ Reached > 0 /\ Reached \in Nat /\ Reached \in 1 .. Len(cmp.order) /\ Len(cmp.order) \in Nat
        /\ DOMAIN cmp.status = CmFirst(Reached) /\ CmPrepared /\ CmWhere /\ CmFileTells /\ cmp.order \in Seq(FeConditions)
    BY <1>1, CmFacts DEF CmPrepared, CmWhere
  <2>2. c \in CmFirst(Reached)
    BY <2>1 DEF CmFirst
  <2>3. cmp.file # FeNothing
    BY <1>1 DEF FeInv, CmSide
  <2> QED
    BY <1>1, <2>1, <2>2, <2>3 DEF CmWhere
<1>3. FeSide' /\ front'.at = "ended" /\ front'.exit = -1
  BY <1>1, CmFacts, CmGoesOn
<1>4. end \in CmEntries
  BY DEF CmEntries
<1>5. /\ status \in CmStatuses /\ DOMAIN status = DOMAIN cmp.status /\ status[c] = end
      /\ \A d \in DOMAIN cmp.status : d # c => status[d] = cmp.status[d]
  <2>1. cmp.status \in CmStatuses
    BY <1>1, CmFacts
  <2>2. c \in FeConditions /\ c \in DOMAIN cmp.status
    BY <1>2
  <2>3. /\ status \in CmStatuses /\ DOMAIN status = DOMAIN cmp.status \cup {c} /\ status[c] = end
        /\ \A d \in DOMAIN cmp.status : d # c => status[d] = cmp.status[d]
    BY ONLY <1>4, <2>1, <2>2, CmEnteredTyped
  <2>4. DOMAIN cmp.status \cup {c} = DOMAIN cmp.status
    BY <2>2
  <2> QED
    BY <2>3, <2>4
<1> HIDE DEF status
<1>6. /\ cmp'.status = status /\ cmp'.order = cmp.order /\ cmp'.available = cmp.available
      /\ cmp'.task = cmp.task /\ cmp'.evidence = cmp.evidence /\ cmp'.file = cmp.file
      /\ cmp'.started = Append(cmp.started, c) /\ cmp'.ends = [cmp.ends EXCEPT ![c] = end]
  BY <1>1, CmFacts DEF CmRows
<1>7. cmp' \in CmRows
  <2>1. Append(cmp.started, c) \in Seq(FeConditions) /\ [cmp.ends EXCEPT ![c] = end] \in [FeConditions -> CmEntries] /\ cmp \in CmRows
    BY <1>1, <1>2, <1>4, CmFacts
  <2> DEFINE started == Append(cmp.started, c)
             ends == [cmp.ends EXCEPT ![c] = end]
  <2>2. cmp' = [cmp EXCEPT !.started = started, !.ends = ends, !.status = status]
    BY <1>1
  <2> HIDE DEF started, ends
  <2> QED
    BY <1>5, <2>1, <2>2 DEF CmRows, started, ends
<1>8. /\ N \in Nat /\ DOMAIN cmp.started = 1 .. N /\ DOMAIN cmp'.started = 1 .. (N + 1) /\ cmp'.started[N + 1] = c
      /\ Len(cmp'.started) = N + 1 /\ \A i \in 1 .. N : cmp'.started[i] = cmp.started[i]
  BY <1>1, <1>2, <1>6, CmFacts
<1> HIDE DEF N
<1>9. CmStarted' = CmStarted \cup {c} /\ {cmp'.started[i] : i \in 1 .. N} = CmStarted
  <2>1. CmStarted = {cmp.started[i] : i \in 1 .. N} /\ 1 .. (N + 1) = (1 .. N) \cup {N + 1}
    BY <1>8 DEF CmStarted, N
  <2>2. CmStarted' = {cmp'.started[i] : i \in 1 .. (N + 1)}
    BY <1>8 DEF CmStarted
  <2> QED
    BY <1>8, <2>1, <2>2
<1>10. Reached' = Reached /\ DOMAIN cmp'.status = DOMAIN cmp.status /\ CmFirst(Reached)' = CmFirst(Reached)
  <2>1. Reached' = Reached
    BY <1>5, <1>6 DEF Reached
  <2> QED
    BY <1>5, <1>6, <2>1 DEF CmFirst
<1>11. CmFirst(Reached) = CmFirst(Reached - 1) \cup {c}
  <2>1. 1 .. Reached = (1 .. (Reached - 1)) \cup {Reached}
    BY <1>2
  <2> QED
    BY <2>1 DEF CmFirst
<1>12. CmStarted' = CmFirst(Reached) \cap cmp.available
  BY <1>2, <1>9, <1>11
<1>13. CmStartedInOrder'
  <2> SUFFICES ASSUME NEW j \in 1 .. (N + 1)
               PROVE  \E n \in DOMAIN cmp'.order :
                         /\ cmp'.started[j] = cmp'.order[n] /\ cmp'.order[n] \in cmp'.available
                         /\ {cmp'.started[i] : i \in 1 .. (j - 1)} = {cmp'.order[m] : m \in 1 .. (n - 1)} \cap cmp'.available
    BY <1>8 DEF CmStartedInOrder
  <2>1. CASE j = N + 1
    <3>1. {cmp'.started[i] : i \in 1 .. (j - 1)} = CmStarted
      <4>1. j - 1 = N
        BY <1>8, <2>1
      <4> QED
        BY <1>9, <4>1
    <3>2. Reached \in DOMAIN cmp.order
      BY <1>1, <1>2, CmFacts
    <3>3. {cmp'.order[m] : m \in 1 .. (Reached - 1)} \cap cmp'.available = CmStarted
      <4>1. {cmp'.order[m] : m \in 1 .. (Reached - 1)} = CmFirst(Reached - 1)
        BY <1>6 DEF CmFirst
      <4> QED
        BY <1>2, <1>6, <4>1
    <3>4. Reached \in DOMAIN cmp'.order /\ cmp'.order[Reached] = c /\ c \in cmp'.available /\ cmp'.started[j] = c
      BY <1>2, <1>6, <1>8, <2>1, <3>2
    <3> QED
      BY <3>1, <3>3, <3>4
  <2>2. CASE j # N + 1
    <3>1. j \in DOMAIN cmp.started /\ cmp'.started[j] = cmp.started[j]
      BY <1>8, <2>2
    <3>2. {cmp'.started[i] : i \in 1 .. (j - 1)} = {cmp.started[i] : i \in 1 .. (j - 1)}
      <4>1. \A i \in 1 .. (j - 1) : i \in 1 .. N
        BY <1>8, <2>2
      <4> QED
        BY <1>8, <4>1
    <3>3. CmStartedInOrder
      BY <1>2 DEF CmPrepared
    <3>4. PICK n \in DOMAIN cmp.order :
            /\ cmp.started[j] = cmp.order[n] /\ cmp.order[n] \in cmp.available
            /\ {cmp.started[i] : i \in 1 .. (j - 1)} = {cmp.order[m] : m \in 1 .. (n - 1)} \cap cmp.available
      BY <3>1, <3>3 DEF CmStartedInOrder
    <3>5. {cmp'.order[m] : m \in 1 .. (n - 1)} = {cmp.order[m] : m \in 1 .. (n - 1)}
      BY <1>6
    <3> QED
      BY <1>6, <3>1, <3>2, <3>4, <3>5
  <2> QED
    BY <2>1, <2>2
<1>14. CmPrepared'
  BY <1>2, <1>6, <1>10, <1>13 DEF CmPrepared
<1>15. \A d : CmEndOf(d)' = IF d = c THEN end ELSE CmEndOf(d)
  <2>1. cmp.ends \in [FeConditions -> CmEntries] /\ cmp.available \subseteq FeConditions
    BY <1>1, CmFacts
  <2> QED
    BY <1>2, <1>6, <2>1 DEF CmEndOf
<1>16. CmWhere'
  <2>1. \A d \in DOMAIN cmp.status : status[d] = CmEndOf(d)'
    BY <1>2, <1>5, <1>15
  <2> QED
    BY <1>2, <1>3, <1>5, <1>6, <1>10, <1>12, <2>1 DEF CmWhere
<1>17. CmFileTells'
  <2>1. CmStarted' \subseteq DOMAIN cmp'.file.of
    BY <1>2, <1>6, <1>12
  <2>2. \A d \in DOMAIN cmp'.file.of : cmp'.file.of[d] \in {cmp'.ends[d], "starting", "unavailable"}
    <3>1. \A d \in DOMAIN cmp.status : d # c => cmp'.ends[d] = cmp.ends[d]
      BY <1>1, <1>6, CmFacts
    <3> QED
      BY <1>2, <1>6, <3>1 DEF CmEndOf
  <2> QED
    BY <1>2, <1>3, <1>6, <2>1, <2>2 DEF CmFileTells
<1> QED
  BY <1>2, <1>3, <1>6, <1>7, <1>14, <1>16, <1>17 DEF FeInv, CmSide

LEMMA CmRecordKeeps ==
    ASSUME FeInv, NEW fault \in BOOLEAN, CmRecord(fault)
    PROVE  FeInv'
<1> PICK status : status = cmp.status
  OBVIOUS
<1> DEFINE place == "next"
<1>1. front.at = "ended" /\ CmWrites(status, place, fault) /\ status \in CmStatuses /\ place = "next"
  BY CmFacts DEF CmRecord
<1> HIDE DEF place
<1>2. /\ cmp'.status = cmp.status /\ cmp'.order = cmp.order /\ cmp'.available = cmp.available /\ cmp'.started = cmp.started
      /\ cmp'.task = cmp.task /\ cmp'.evidence = cmp.evidence /\ cmp'.ends = cmp.ends
  BY <1>1, CmFacts DEF CmWrites, CmRows
<1>3. Reached' = Reached /\ CmFirst(Reached)' = CmFirst(Reached) /\ CmStarted' = CmStarted
      /\ \A d : CmEndOf(d)' = CmEndOf(d)
  <2>1. Reached' = Reached
    BY <1>2 DEF Reached
  <2> QED
    BY <1>2, <2>1 DEF CmFirst, CmStarted, CmEndOf
<1>4. CmPrepared /\ CmWhere
  BY <1>1, CmFacts
<1>5. CmPrepared'
  <2>1. CmStartedInOrder'
    BY <1>2, <1>4, CmOrderKept DEF CmPrepared
  <2> QED
    BY <1>2, <1>3, <1>4, <2>1 DEF CmPrepared
<1>6. CASE fault
  BY <1>1, <1>5, <1>6, CmWriteFails
<1>7. CASE ~fault
  <2>1. /\ FeSide' /\ front'.at = "next" /\ front'.exit = -1 /\ cmp' \in CmRows
        /\ cmp'.file # FeNothing /\ cmp'.file.of = cmp.status /\ ~cmp'.file.finished
    BY <1>1, <1>7, CmWriteSaves
  <2>2. /\ CmStarted = CmFirst(Reached) \cap cmp.available /\ DOMAIN cmp.status = CmFirst(Reached)
        /\ \A d \in DOMAIN cmp.status : cmp.status[d] = CmEndOf(d)
    BY <1>1, <1>4 DEF CmWhere, CmPrepared
  <2>3. CmWhere'
    BY <1>2, <1>3, <2>1, <2>2 DEF CmWhere
  <2>4. CmFileTells'
    BY <1>2, <1>3, <2>1, <2>2 DEF CmFileTells, CmEndOf
  <2> QED
    BY <1>5, <2>1, <2>3, <2>4 DEF FeInv, CmSide
<1> QED
  BY <1>6, <1>7

\* Every condition has its entry when as many were reached as there are.
LEMMA CmFinishKeeps ==
    ASSUME FeInv, NEW fault \in BOOLEAN, CmFinish(fault)
    PROVE  FeInv'
<1>1. front.at = "next" /\ Reached = Len(cmp.order) /\ UNCHANGED <<feRequest, feEnds, kept, published>> /\ CmSide
  BY DEF CmFinish, FeInv
<1>2. CASE fault
  <2>1. front' = FeLeaves(2) /\ cmp' = cmp
    BY <1>2 DEF CmFinish
  <2>2. FeSide' /\ front'.at = "over" /\ front'.exit = 2
    BY <1>1, <2>1, CmFacts, CmLeaves
  <2> QED
    BY <1>1, <2>1, <2>2, CmFilesStay DEF FeInv
<1>3. CASE ~fault
  <2> DEFINE yes == TRUE
             file == [cmp.file EXCEPT !.finished = yes]
  <2>1. front' = FeLeaves(0) /\ cmp' = [cmp EXCEPT !.file = file] /\ yes
    BY <1>3 DEF CmFinish
  <2>2. FeSide' /\ front'.at = "over" /\ front'.exit = 0
    BY <1>1, <2>1, CmFacts, CmLeaves
  <2>3. yes \in BOOLEAN
    OBVIOUS
  <2> HIDE DEF yes
  <2>4. file \in CmFiles /\ file.of = cmp.file.of /\ file.finished
    BY <1>1, <2>1, <2>3, CmFacts DEF CmFiles
  <2> HIDE DEF file
  <2>5. /\ cmp'.file = file /\ cmp' \in CmRows
        /\ cmp'.status = cmp.status /\ cmp'.order = cmp.order /\ cmp'.available = cmp.available /\ cmp'.started = cmp.started
        /\ cmp'.task = cmp.task /\ cmp'.evidence = cmp.evidence /\ cmp'.ends = cmp.ends
    BY <1>1, <2>1, <2>4, CmFacts DEF CmRows
  <2>6. Reached' = Reached /\ CmFirst(Reached)' = CmFirst(Reached) /\ CmStarted' = CmStarted
        /\ \A d : CmEndOf(d)' = CmEndOf(d)
    <3>1. Reached' = Reached
      BY <2>5 DEF Reached
    <3> QED
      BY <2>5, <3>1 DEF CmFirst, CmStarted, CmEndOf
  <2>7. CmPrepared /\ CmWhere /\ CmFileTells
    BY <1>1, CmFacts
  <2>8. CmPrepared'
    <3>1. CmStartedInOrder'
      BY <2>5, <2>7, CmOrderKept DEF CmPrepared
    <3> QED
      BY <2>5, <2>6, <2>7, <3>1 DEF CmPrepared
  <2>9. DOMAIN cmp.status = FeConditions
    <3>1. DOMAIN cmp.status \subseteq FeConditions /\ Cardinality(DOMAIN cmp.status) = Cardinality(FeConditions)
      BY <1>1, <2>7, CmFacts DEF CmPrepared, Reached
    <3> QED
      BY <3>1, FeAssumption, FS_Subset
  <2>10. cmp'.file.of = cmp.status /\ \A c \in FeConditions : cmp.status[c] = CmEndOf(c)
    BY <1>1, <2>4, <2>5, <2>7, <2>9 DEF CmWhere
  <2>11. CmFileTells'
    BY <2>2, <2>4, <2>5, <2>6, <2>7, <2>9, <2>10, <1>1 DEF CmFileTells, CmWhere
  <2>12. cmp'.file # FeNothing
    BY <2>4, <2>5, FeNothingApart
  <2> QED
    BY <2>2, <2>5, <2>8, <2>11, <2>12 DEF FeInv, CmSide, CmWhere
<1> QED
  BY <1>2, <1>3

-----------------------------------------------------------------------------
\* Whatever of a run or of a write fails, and wherever a command is killed, what
\* the front ends leave on disk and in their exit codes is what the runners did
\* (experiment_run.py, benchmark_run.py, preliminary_comparison.py).
THEOREM FeRecordsAlwaysTrue == FeSpec => []FeRecordsAreTrue
<1>1. FeInv /\ [FeNext]_feVars => FeInv'
  <2> SUFFICES ASSUME FeInv, [FeNext]_feVars PROVE FeInv'
    OBVIOUS
  <2>1. CASE FeLoad
    BY <2>1, FeLoadKeeps
  <2>2. CASE FeGate
    BY <2>2, FeGateKeeps
  <2>3. CASE FeKilled
    BY <2>3, FeKilledKeeps
  <2>4. ASSUME NEW end, FeLower(end) PROVE FeInv'
    BY <2>4, FeLowerKeeps
  <2>5. ASSUME NEW fault \in {"none", "summary", "provenance"}, FeRead(fault) PROVE FeInv'
    BY <2>5, FeReadKeeps
  <2>6. ASSUME NEW yes \in BOOLEAN, FeSave(yes) \/ FeRecord(yes) \/ FeAgain(yes) PROVE FeInv'
    BY <2>6, FeSaveKeeps, FeRecordKeeps, FeAgainKeeps
  <2>7. ASSUME NEW yes \in BOOLEAN, CmNext(yes) \/ CmRecord(yes) \/ CmFinish(yes) PROVE FeInv'
    BY <2>7, CmNextKeeps, CmRecordKeeps, CmFinishKeeps
  <2>8. ASSUME NEW yes \in BOOLEAN, NEW order \in SetToSeqs(FeConditions), NEW available \in SUBSET FeConditions,
               CmPrepare(order, available, yes)
        PROVE  FeInv'
    BY <2>8, CmPrepareKeeps
  <2>9. ASSUME NEW end \in {"recorded", "raised"}, CmRun(end) PROVE FeInv'
    BY <2>9, CmRunKeeps
  <2>10. CASE UNCHANGED feVars
    <3>1. UNCHANGED <<feRequest, front, feEnds, kept, published, cmp>>
      BY <2>10 DEF feVars
    <3>2. FeSide'
      BY <3>1 DEF FeInv, FeSide, FeTypeOK, FeRecordsSound, FeSound, Whole, FeRunsInOrder, FePlaces, FeOutcome, FeKindsApart,
                  FeKind, FeReconciled, FeResult, FeComplete, FeMeasured, FeRecordOf
    <3>3. CmSide'
      BY <3>1 DEF FeInv, CmSide, CmPrepared, CmWhere, CmFileTells, CmFirst, CmStarted, CmEndOf, CmStartedInOrder, Reached
    <3> QED
      BY <3>2, <3>3 DEF FeInv
  <2> QED
    BY <2>1, <2>2, <2>3, <2>4, <2>5, <2>6, <2>7, <2>8, <2>9, <2>10 DEF FeNext
<1> QED
  BY <1>1, FeInitHolds, FeInvTrue, PTL DEF FeSpec

(***************************************************************************)
(* Recovery.                                                               *)
(***************************************************************************)

RecHandleRows ==
    [state : {"active", "partially_delivered", "fully_delivered", "expired", "revoked"}, calls : Nat, delivered : Nat,
     next : Nat, created : Nat]
RecCapRows == [state : {"issued"}, peer : RecPeers, expires : Nat, calls : Nat, bytes : Nat]
RecCounts == [calls : Nat, bytes : Nat]

RecTypeOK ==
    /\ handle \in [RecHandles -> RecHandleRows \cup {Unknown}]
    /\ usage \in RecCounts
    /\ capability \in [RecLabels -> RecCapRows \cup {Unknown}]
    /\ clock \in Nat
    /\ caller \in [RecHandles -> Seq(Nat \X Nat)]
    /\ served \in [RecLabels \X RecNonces -> RecCounts]

RecHandleSound(r) ==
    r # Unknown => /\ r.next = r.delivered /\ r.next \in Offsets
                   /\ r.delivered <= RecMaxTotal /\ r.calls <= RecMaxCalls

\* A caller's chunks follow each other up to some offset at most `next`.
RecHeard(chunks, next) ==
    /\ \A i \in 1 .. Len(chunks) :
          /\ chunks[i][1] = IF i = 1 THEN 0 ELSE chunks[i - 1][2]
          /\ chunks[i][1] \in Offsets /\ chunks[i][2] \in Offsets
          /\ 0 < chunks[i][2] /\ chunks[i][2] <= next
    /\ \A i, j \in 1 .. Len(chunks) : i < j => chunks[i][2] < chunks[j][2]

RecNextOf == [h \in RecHandles |-> IF handle[h] = Unknown THEN 0 ELSE handle[h].next]

\* The side of the handles: what they delivered, to whom, at whose cost.
RecDelivered ==
    /\ \A h \in RecHandles : RecHandleSound(handle[h])
    /\ \A h \in RecHandles : IF handle[h] = Unknown THEN caller[h] = <<>> ELSE RecHeard(caller[h], handle[h].next)
    /\ usage.calls <= RecTrialCalls /\ usage.bytes <= RecTrialBytes
    /\ usage.bytes = SumOf(RecNextOf, RecHandles)

RecCallsOf(l) == [n \in RecNonces |-> served[<<l, n>>].calls]
RecBytesOf(l) == [n \in RecNonces |-> served[<<l, n>>].bytes]

\* The side of the capabilities: their counts are those of their nonces, also
\* of those that only have their files left.
RecBought ==
    \A l \in RecLabels :
       /\ SumOf(RecCallsOf(l), RecNonces) <= CapCalls /\ SumOf(RecBytesOf(l), RecNonces) <= CapBytes
       /\ capability[l] # Unknown =>
             /\ <<l>> \in onDisk
             /\ capability[l].calls = SumOf(RecCallsOf(l), RecNonces)
             /\ capability[l].bytes = SumOf(RecBytesOf(l), RecNonces)
       /\ \A n \in RecNonces :
             /\ served[<<l, n>>].calls <= 1
             /\ (<<l>> \notin onDisk \/ <<l, n>> \notin onDisk) => served[<<l, n>>].calls = 0 /\ served[<<l, n>>].bytes = 0

RecInv == RecTypeOK /\ RecDelivered /\ RecBought

-----------------------------------------------------------------------------
LEMMA SumOfNothing ==
    ASSUME NEW f, NEW S, IsFiniteSet(S), \A x \in S : f[x] = 0
    PROVE  SumOf(f, S) = 0
<1>1. SumOf(f, S) = Total(f, S)
  BY DEF SumOf, Total
<1> QED
  BY <1>1, TotalNothing

LEMMA RecLimits ==
    /\ RecMaxTotal \in Nat /\ RecMaxCalls \in Nat /\ RecTrialCalls \in Nat /\ RecTrialBytes \in Nat
    /\ RecMaxResponse \in Nat /\ CapCalls \in Nat /\ CapBytes \in Nat /\ CapTtl \in Nat
  BY RecAssumption DEF RecoveryPolicyValid, BridgePolicyValid

LEMMA RecUnknownApart == Unknown \notin RecHandleRows /\ Unknown \notin RecCapRows /\ Unknown.state = "unknown"
<1>1. DOMAIN Unknown = {"state"} /\ Unknown.state = "unknown"
  BY DEF Unknown
<1>2. (\A r \in RecHandleRows : "calls" \in DOMAIN r) /\ (\A r \in RecCapRows : "peer" \in DOMAIN r)
  BY DEF RecHandleRows, RecCapRows
<1> QED
  BY <1>1, <1>2

\* Characters end at growing offsets, the last at the end of the original.
LEMMA RecOffsets ==
    /\ OriginalBytes \in Nat
    /\ \A e \in Offsets : e \in Nat /\ e <= OriginalBytes
    /\ 0 \in Offsets
<1> DEFINE N == Len(RecOriginal)
<1>1. N \in Nat /\ \A i \in 1 .. N : RecOriginal[i] \in Nat
  BY RecAssumption
<1>2. IsFiniteSet(1 .. N)
  BY <1>1, FS_Interval
<1>3. \A n \in 0 .. N : SumOf(RecOriginal, 1 .. n) = Total(RecOriginal, 1 .. n)
  BY DEF SumOf, Total
<1>4. Total(RecOriginal, 1 .. N) \in Nat
  BY <1>1, <1>2, TotalType
<1>5. ASSUME NEW n \in 0 .. N
      PROVE  Total(RecOriginal, 1 .. n) \in Nat /\ Total(RecOriginal, 1 .. n) <= Total(RecOriginal, 1 .. N)
  <2>1. 1 .. n \subseteq 1 .. N /\ IsFiniteSet(1 .. n)
    BY <1>1, FS_Interval
  <2>2. Total(RecOriginal, 1 .. n) \in Nat
    BY <1>1, <2>1, TotalType
  <2> QED
    BY <1>1, <1>2, <2>1, <2>2, TotalSubset
<1>6. OriginalBytes = Total(RecOriginal, 1 .. N)
  BY <1>1, <1>3 DEF OriginalBytes, OffsetAfter
<1>7. \A e \in Offsets : \E n \in 0 .. N : e = Total(RecOriginal, 1 .. n)
  BY <1>3 DEF Offsets, OffsetAfter
<1>8. 0 \in Offsets
  <2>1. Total(RecOriginal, {}) = 0
    BY TotalEmpty
  <2>2. 1 .. 0 = {} /\ 0 \in 0 .. N
    BY <1>1
  <2>3. OffsetAfter(0) = 0
    BY <1>3, <2>1, <2>2 DEF OffsetAfter
  <2> QED
    BY <2>2, <2>3 DEF Offsets
<1> QED
  BY <1>4, <1>5, <1>6, <1>7, <1>8

\* The end of a chunk is an offset within what was planned.
LEMMA RecChunk ==
    ASSUME NEW start \in Offsets, NEW maximum \in Nat
    PROVE  /\ ChunkEnd(start, maximum) \in Offsets /\ ChunkEnd(start, maximum) \in Nat
           /\ start <= ChunkEnd(start, maximum) /\ ChunkEnd(start, maximum) <= start + maximum
<1> DEFINE ends == {e \in Offsets : start <= e /\ e <= start + maximum}
<1>1. start \in ends /\ ends \subseteq 0 .. OriginalBytes
  BY RecOffsets
<1>2. Max(ends) \in ends
  BY <1>1, RecOffsets, GreatestOf
<1> QED
  BY <1>2, RecOffsets DEF ChunkEnd

LEMMA RecPlanned ==
    ASSUME NEW r \in RecHandleRows, r.next \in Offsets, RecMaxTotal - r.delivered > 0
    PROVE  /\ PlannedBytes(r) \in Nat /\ PlannedBytes(r) <= RecMaxTotal - r.delivered
<1> DEFINE left == {RecMaxResponse, RecMaxTotal - r.delivered, OriginalBytes - r.next}
<1>1. r.delivered \in Nat /\ r.next \in Nat
  BY DEF RecHandleRows
<1>2. left \subseteq Nat
  BY <1>1, RecLimits, RecOffsets
<1>3. Min(left) \in left /\ \A y \in left : Min(left) <= y
  BY <1>2, LeastOf
<1> QED
  BY <1>2, <1>3 DEF PlannedBytes

\* What a request to the adapter does: it changes nothing, or counts a call,
\* or counts one and delivers the next bytes within every limit.
RecMoves(r, after, bytes) ==
    /\ after.record \in RecHandleRows
    /\ after.record.next = r.next + bytes /\ after.record.next \in Offsets
    /\ RecHandleSound(after.record)
    /\ after.usage \in RecCounts /\ after.usage.calls <= RecTrialCalls
    /\ after.usage.bytes = usage.bytes + bytes /\ after.usage.bytes <= RecTrialBytes
    /\ after.invoked \in BOOLEAN /\ bytes <= OriginalBytes
    /\ after.chunk = IF bytes = 0 THEN <<>> ELSE <<r.next, r.next + bytes>>

LEMMA RecDecides ==
    ASSUME RecInv, NEW h \in RecHandles, NEW cursor, NEW outcome, handle[h] # Unknown
    PROVE  \E bytes \in Nat :
              /\ RecMoves(handle[h], Decision(h, cursor, outcome), bytes)
              /\ bytes > 0 => Decision(h, cursor, outcome).invoked /\ cursor = handle[h].next
<1> DEFINE r == handle[h]
           d == Decision(h, cursor, outcome)
           no == FALSE
           none == 0
           still == [record |-> r, usage |-> usage, invoked |-> no, chunk |-> <<>>]
           invoked == outcome # "refused"
           counted == [record |-> [r EXCEPT !.calls = @ + 1], usage |-> [usage EXCEPT !.calls = @ + 1],
                       invoked |-> invoked, chunk |-> <<>>]
           end == ChunkEnd(r.next, PlannedBytes(r))
           size == end - r.next
<1>1. /\ r \in RecHandleRows /\ RecHandleSound(r) /\ r # Unknown /\ usage \in RecCounts
      /\ usage.calls <= RecTrialCalls /\ usage.bytes <= RecTrialBytes /\ r.calls \in Nat /\ r.delivered \in Nat /\ r.next \in Nat
      /\ usage.calls \in Nat /\ usage.bytes \in Nat /\ r.next \in Offsets /\ r.next = r.delivered
  BY DEF RecInv, RecTypeOK, RecDelivered, RecHandleRows, RecCounts, RecHandleSound
<1>2. no \in BOOLEAN /\ invoked \in BOOLEAN /\ none \in Nat /\ none = 0 /\ ~no
  OBVIOUS
<1>3. \/ d = still
      \/ d = [still EXCEPT !.record.state = "expired"]
      \/ /\ ~Refused(r, cursor) /\ d = counted
      \/ /\ ~Refused(r, cursor) /\ outcome = "original" /\ size # 0
         /\ d = [counted EXCEPT !.record.delivered = @ + size, !.record.next = end,
                    !.record.state = IF end = OriginalBytes THEN "fully_delivered" ELSE "partially_delivered",
                    !.usage.bytes = @ + size, !.chunk = <<r.next, end>>]
  BY DEF Decision
<1>4. ASSUME ~Refused(r, cursor)
      PROVE  /\ cursor = r.next /\ r.calls < RecMaxCalls /\ RecMaxTotal - r.delivered > 0 /\ usage.calls < RecTrialCalls
             /\ usage.bytes + PlannedBytes(r) <= RecTrialBytes
             /\ PlannedBytes(r) \in Nat /\ PlannedBytes(r) <= RecMaxTotal - r.delivered
             /\ end \in Offsets /\ end \in Nat /\ r.next <= end /\ end <= r.next + PlannedBytes(r) /\ end <= OriginalBytes
             /\ size \in Nat
  <2>1. cursor = r.next /\ r.calls < RecMaxCalls /\ RecMaxTotal - r.delivered > 0 /\ usage.calls < RecTrialCalls
        /\ ~(usage.bytes + PlannedBytes(r) > RecTrialBytes)
    BY <1>1, <1>4, RecLimits DEF Refused, CursorFits
  <2>2. PlannedBytes(r) \in Nat /\ PlannedBytes(r) <= RecMaxTotal - r.delivered
    BY <1>1, <2>1, RecPlanned
  <2>3. end \in Offsets /\ end \in Nat /\ r.next <= end /\ end <= r.next + PlannedBytes(r)
    BY <1>1, <2>2, RecChunk
  <2> QED
    BY <1>1, <2>1, <2>2, <2>3, RecLimits, RecOffsets
<1> HIDE DEF d, r, end, no, none
<1>5. CASE d = still
  <2>1. d.record = r /\ d.usage = usage /\ d.invoked = no /\ d.chunk = <<>>
    BY <1>5
  <2>2. RecMoves(r, d, none)
    BY <1>1, <1>2, <2>1, RecOffsets DEF RecMoves
  <2> QED
    BY <1>2, <2>2 DEF r, d
<1>6. CASE d = [still EXCEPT !.record.state = "expired"]
  <2>1. d.record = [r EXCEPT !.state = "expired"] /\ d.usage = usage /\ d.invoked = no /\ d.chunk = <<>>
    BY <1>6
  <2>2. d.record \in RecHandleRows /\ d.record.next = r.next /\ d.record.delivered = r.delivered /\ d.record.calls = r.calls
    BY <1>1, <2>1 DEF RecHandleRows
  <2>3. RecMoves(r, d, none)
    BY <1>1, <1>2, <2>1, <2>2, RecOffsets DEF RecMoves, RecHandleSound
  <2> QED
    BY <1>2, <2>3 DEF r, d
<1>7. CASE ~Refused(r, cursor) /\ d = counted
  <2>1. d.record = [r EXCEPT !.calls = @ + 1] /\ d.usage = [usage EXCEPT !.calls = @ + 1] /\ d.invoked = invoked /\ d.chunk = <<>>
    BY <1>7
  <2>2. /\ d.record \in RecHandleRows /\ d.record.next = r.next /\ d.record.delivered = r.delivered
        /\ d.record.calls = r.calls + 1
    BY <1>1, <2>1 DEF RecHandleRows
  <2>3. d.usage \in RecCounts /\ d.usage.calls = usage.calls + 1 /\ d.usage.bytes = usage.bytes
    BY <1>1, <2>1 DEF RecCounts
  <2>4. r.calls < RecMaxCalls /\ usage.calls < RecTrialCalls
    BY <1>4, <1>7
  <2>5. RecHandleSound(d.record)
    BY <1>1, <2>2, <2>4, RecLimits DEF RecHandleSound
  <2>6. RecMoves(r, d, none)
    BY <1>1, <1>2, <2>1, <2>2, <2>3, <2>4, <2>5, RecOffsets, RecLimits DEF RecMoves
  <2> QED
    BY <1>2, <2>6 DEF r, d
<1>8. CASE /\ ~Refused(r, cursor) /\ outcome = "original" /\ size # 0
           /\ d = [counted EXCEPT !.record.delivered = @ + size, !.record.next = end,
                    !.record.state = IF end = OriginalBytes THEN "fully_delivered" ELSE "partially_delivered",
                    !.usage.bytes = @ + size, !.chunk = <<r.next, end>>]
  <2> DEFINE now == IF end = OriginalBytes THEN "fully_delivered" ELSE "partially_delivered"
           called == [r EXCEPT !.calls = @ + 1]
           used == [usage EXCEPT !.calls = @ + 1]
  <2>1. /\ d.record = [called EXCEPT !.delivered = @ + size, !.next = end, !.state = now]
        /\ d.usage = [used EXCEPT !.bytes = @ + size]
        /\ d.invoked = invoked /\ d.chunk = <<r.next, end>>
    BY <1>8
  <2>2. now \in {"fully_delivered", "partially_delivered"} /\ size \in Nat /\ size > 0 /\ invoked /\ end = r.next + size
    BY <1>1, <1>4, <1>8
  <2>7. called \in RecHandleRows /\ called.calls = r.calls + 1 /\ called.delivered = r.delivered /\ called.next = r.next
    BY <1>1 DEF RecHandleRows
  <2>8. used \in RecCounts /\ used.calls = usage.calls + 1 /\ used.bytes = usage.bytes
    BY <1>1 DEF RecCounts
  <2>9. r.calls < RecMaxCalls /\ usage.calls < RecTrialCalls /\ end \in Nat
    BY <1>4, <1>8
  <2> HIDE DEF now, size, called, used
  <2>3. /\ d.record \in RecHandleRows /\ d.record.next = end /\ d.record.delivered = r.delivered + size
        /\ d.record.calls = r.calls + 1
    <3> DEFINE sum == called.delivered + size
    <3>1. d.record = [called EXCEPT !.delivered = sum, !.next = end, !.state = now] /\ sum \in Nat /\ sum = r.delivered + size
      BY <1>1, <2>1, <2>2, <2>7
    <3> HIDE DEF sum
    <3>2. now \in {"active", "partially_delivered", "fully_delivered", "expired", "revoked"}
      BY <2>2
    <3> QED
      BY <2>7, <2>9, <3>1, <3>2 DEF RecHandleRows
  <2>4. d.usage \in RecCounts /\ d.usage.calls = usage.calls + 1 /\ d.usage.bytes = usage.bytes + size
    BY <1>1, <2>1, <2>2, <2>8 DEF RecCounts
  <2>5. RecHandleSound(d.record)
    BY <1>1, <1>4, <1>8, <2>2, <2>3, RecLimits DEF RecHandleSound
  <2>6. RecMoves(r, d, size)
    BY <1>1, <1>2, <1>4, <1>8, <2>1, <2>2, <2>3, <2>4, <2>5, RecOffsets, RecLimits DEF RecMoves
  <2> QED
    BY <1>4, <1>8, <2>1, <2>2, <2>6 DEF r, d
<1> QED
  BY <1>3, <1>5, <1>6, <1>7, <1>8

LEMMA RecDecidesNothing ==
    ASSUME NEW h \in RecHandles, NEW cursor, NEW outcome, handle[h] = Unknown
    PROVE  /\ Decision(h, cursor, outcome).record = Unknown /\ Decision(h, cursor, outcome).usage = usage
           /\ Decision(h, cursor, outcome).chunk = <<>> /\ ~Decision(h, cursor, outcome).invoked
<1>1. ~Live(Unknown)
  BY RecUnknownApart DEF Live
<1> QED
  BY <1>1 DEF Decision

\* A chunk more, from where the last one ended.
LEMMA RecHearsMore ==
    ASSUME NEW chunks \in Seq(Nat \X Nat), NEW next \in Nat, NEW end \in Nat, RecHeard(chunks, next),
           next \in Offsets, end \in Offsets, next < end,
           next = 0 \/ \E i \in 1 .. Len(chunks) : chunks[i][2] = next
    PROVE  RecHeard(Append(chunks, <<next, end>>), end) /\ Append(chunks, <<next, end>>) \in Seq(Nat \X Nat)
<1> DEFINE N == Len(chunks)
           more == Append(chunks, <<next, end>>)
<1>1. N \in Nat /\ \A i \in 1 .. N : chunks[i][2] \in Nat
  OBVIOUS
<1>2. Len(more) = N + 1 /\ more[N + 1] = <<next, end>> /\ (\A i \in 1 .. N : more[i] = chunks[i]) /\ more \in Seq(Nat \X Nat)
  OBVIOUS
<1>3. next = IF N + 1 = 1 THEN 0 ELSE chunks[N][2]
  <2>1. CASE next = 0
    BY <1>1, <2>1 DEF RecHeard
  <2>2. ASSUME NEW i \in 1 .. N, chunks[i][2] = next PROVE chunks[N][2] = next /\ N # 0
    <3>1. N \in 1 .. N /\ (i # N => i < N)
      BY <1>1
    <3>2. chunks[N][2] <= next /\ (i < N => chunks[i][2] < chunks[N][2]) /\ chunks[N][2] \in Nat
      BY <1>1, <3>1 DEF RecHeard
    <3> QED
      BY <1>1, <2>2, <3>1, <3>2
  <2> QED
    BY <2>1, <2>2
<1>6. \A i \in 1 .. N :
         /\ chunks[i][1] = IF i = 1 THEN 0 ELSE chunks[i - 1][2]
         /\ chunks[i][1] \in Offsets /\ chunks[i][2] \in Offsets /\ 0 < chunks[i][2] /\ chunks[i][2] <= next
         /\ \A j \in 1 .. N : i < j => chunks[i][2] < chunks[j][2]
  BY DEF RecHeard
<1> HIDE DEF N, more
<1>4. ASSUME NEW i \in 1 .. (N + 1), NEW j \in 1 .. (N + 1), i < j PROVE more[i][2] < more[j][2]
  <2>1. i \in 1 .. N /\ more[i] = chunks[i] /\ chunks[i][2] <= next /\ chunks[i][2] \in Nat
    BY <1>1, <1>2, <1>4, <1>6
  <2>2. CASE j = N + 1
    <3>1. more[j][2] = end
      BY <1>2, <2>2
    <3> QED
      BY <2>1, <3>1
  <2>3. CASE j # N + 1
    <3>1. j \in 1 .. N
      BY <1>1, <2>3
    <3> QED
      BY <1>2, <1>4, <1>6, <2>1, <3>1
  <2> QED
    BY <2>2, <2>3
<1>5. ASSUME NEW i \in 1 .. (N + 1)
      PROVE  /\ more[i][1] = IF i = 1 THEN 0 ELSE more[i - 1][2]
             /\ more[i][1] \in Offsets /\ more[i][2] \in Offsets
             /\ 0 < more[i][2] /\ more[i][2] <= end
  <2>1. CASE i = N + 1
    <3>1. i # 1 => N \in 1 .. N /\ i - 1 = N
      BY <1>1, <2>1
    <3> QED
      BY <1>1, <1>2, <1>3, <2>1, <3>1
  <2>2. CASE i # N + 1
    <3>1. i \in 1 .. N /\ (i # 1 => i - 1 \in 1 .. N)
      BY <1>1, <2>2
    <3>2. more[i] = chunks[i] /\ (i # 1 => more[i - 1] = chunks[i - 1]) /\ chunks[i][2] \in Nat
      BY <1>1, <1>2, <3>1
    <3>3. /\ chunks[i][1] = IF i = 1 THEN 0 ELSE chunks[i - 1][2]
          /\ chunks[i][1] \in Offsets /\ chunks[i][2] \in Offsets /\ 0 < chunks[i][2] /\ chunks[i][2] <= next
      BY <1>6, <3>1
    <3>4. more[i][1] = IF i = 1 THEN 0 ELSE more[i - 1][2]
      BY <3>2, <3>3
    <3>5. \A a \in Nat : a <= next => a <= end
      OBVIOUS
    <3>6. chunks[i][2] <= end
      BY <3>2, <3>3, <3>5
    <3> QED
      BY <3>2, <3>3, <3>4, <3>6
  <2> QED
    BY <2>1, <2>2
<1>7. RecHeard(more, end)
  BY <1>2, <1>4, <1>5 DEF RecHeard
<1> QED
  BY <1>2, <1>7 DEF more

\* One request, from either way in, keeps the side of the handles.
LEMMA RecDelivers ==
    ASSUME RecInv, NEW h \in RecHandles, NEW cursor \in CursorsOf(h), NEW outcome,
           handle' = [handle EXCEPT ![h] = Decision(h, cursor, outcome).record],
           usage' = Decision(h, cursor, outcome).usage, Arrives(h, Decision(h, cursor, outcome).chunk)
    PROVE  /\ handle' \in [RecHandles -> RecHandleRows \cup {Unknown}] /\ usage' \in RecCounts
           /\ caller' \in [RecHandles -> Seq(Nat \X Nat)] /\ RecDelivered'
<1> DEFINE d == Decision(h, cursor, outcome)
<1>1. /\ handle \in [RecHandles -> RecHandleRows \cup {Unknown}] /\ usage \in RecCounts
      /\ caller \in [RecHandles -> Seq(Nat \X Nat)] /\ RecDelivered
  BY DEF RecInv, RecTypeOK
<1>2. CASE handle[h] = Unknown
  <2>1. d.record = Unknown /\ d.usage = usage /\ d.chunk = <<>>
    BY <1>2, RecDecidesNothing
  <2>2. handle' = handle /\ usage' = usage /\ caller' = caller
    BY <1>1, <1>2, <2>1 DEF Arrives
  <2> QED
    BY <1>1, <2>2 DEF RecDelivered, RecNextOf
<1>3. CASE handle[h] # Unknown
  <2>1. PICK bytes \in Nat : RecMoves(handle[h], d, bytes) /\ (bytes > 0 => d.invoked /\ cursor = handle[h].next)
    BY <1>3, RecDecides
  <2> HIDE DEF d
  <2>2. /\ handle' \in [RecHandles -> RecHandleRows \cup {Unknown}] /\ handle'[h] = d.record /\ d.record \in RecHandleRows
        /\ \A g \in RecHandles : g # h => handle'[g] = handle[g]
    BY <1>1, <2>1 DEF RecMoves, d
  <2>3. /\ handle[h] \in RecHandleRows /\ handle[h].next \in Nat /\ handle'[h].next = handle[h].next + bytes
        /\ handle'[h].next \in Offsets /\ handle'[h] # Unknown /\ handle[h].next \in Offsets
    BY <1>1, <1>3, <2>1, <2>2, RecUnknownApart DEF RecMoves, RecHandleRows, RecDelivered, RecHandleSound
  <2>4. usage' \in RecCounts /\ usage'.calls <= RecTrialCalls /\ usage'.bytes <= RecTrialBytes /\ usage'.bytes = usage.bytes + bytes
    BY <2>1 DEF RecMoves, d
  <2>5. \A g \in RecHandles : RecHandleSound(handle'[g])
    BY <1>1, <2>1, <2>2 DEF RecDelivered, RecMoves
  <2>6. usage'.bytes = SumOf(RecNextOf', RecHandles)
    <3>1. /\ \A g \in RecHandles : RecNextOf[g] \in Nat /\ RecNextOf'[g] \in Nat
          /\ \A g \in RecHandles \ {h} : RecNextOf'[g] = RecNextOf[g]
          /\ RecNextOf'[h] - RecNextOf[h] = bytes
      BY <1>1, <1>3, <2>2, <2>3 DEF RecNextOf, RecHandleRows
    <3>2. Total(RecNextOf', RecHandles) = Total(RecNextOf, RecHandles) + (RecNextOf'[h] - RecNextOf[h])
      BY <3>1, RecAssumption, TotalChange
    <3>3. usage.bytes = Total(RecNextOf, RecHandles)
      BY <1>1 DEF RecDelivered, SumOf, Total
    <3> QED
      BY <2>4, <3>1, <3>2, <3>3 DEF SumOf, Total
  <2>7. /\ caller'[h] \in Seq(Nat \X Nat) /\ RecHeard(caller'[h], handle'[h].next)
        /\ \A g \in RecHandles : g # h => caller'[g] = caller[g]
        /\ caller' \in [RecHandles -> Seq(Nat \X Nat)]
    <3>1. RecHeard(caller[h], handle[h].next) /\ caller[h] \in Seq(Nat \X Nat) /\ Len(caller[h]) \in Nat
      BY <1>1, <1>3 DEF RecDelivered
    <3>2. CASE caller' = caller
      <4>1. RecHeard(caller[h], handle'[h].next)
        <5>1. \A i \in 1 .. Len(caller[h]) : caller[h][i][2] \in Nat
          BY <3>1
        <5> QED
          BY <2>3, <3>1, <5>1 DEF RecHeard
      <4> QED
        BY <1>1, <3>1, <3>2, <4>1
    <3>3. CASE caller' # caller
      <4>1. d.chunk # <<>> /\ caller' = [caller EXCEPT ![h] = Append(@, d.chunk)]
        BY <3>3 DEF Arrives, d
      <4>2. bytes > 0 /\ d.chunk = <<handle[h].next, handle'[h].next>> /\ cursor = handle[h].next
        BY <2>1, <2>3, <4>1 DEF RecMoves
      <4>3. cursor = 0 \/ \E i \in 1 .. Len(caller[h]) : caller[h][i][2] = cursor
        <5>1. DOMAIN caller[h] = 1 .. Len(caller[h])
          BY <3>1
        <5> QED
          BY <5>1 DEF CursorsOf, ToSet
      <4>6. handle[h].next < handle'[h].next /\ handle'[h].next \in Nat
        BY <2>3, <4>2
      <4>7. handle[h].next = 0 \/ \E i \in 1 .. Len(caller[h]) : caller[h][i][2] = handle[h].next
        BY <4>2, <4>3
      <4>4. /\ RecHeard(Append(caller[h], <<handle[h].next, handle'[h].next>>), handle'[h].next)
            /\ Append(caller[h], <<handle[h].next, handle'[h].next>>) \in Seq(Nat \X Nat)
        BY ONLY <2>3, <3>1, <4>6, <4>7, RecHearsMore
      <4>5. caller'[h] = Append(caller[h], <<handle[h].next, handle'[h].next>>)
        BY <1>1, <4>1, <4>2
      <4> QED
        BY <1>1, <4>1, <4>2, <4>4, <4>5
    <3> QED
      BY <3>2, <3>3
  <2>8. \A g \in RecHandles : IF handle'[g] = Unknown THEN caller'[g] = <<>> ELSE RecHeard(caller'[g], handle'[g].next)
    BY <1>1, <2>2, <2>3, <2>7 DEF RecDelivered
  <2> QED
    BY <2>2, <2>4, <2>5, <2>6, <2>7, <2>8 DEF RecDelivered
<1> QED
  BY <1>2, <1>3

-----------------------------------------------------------------------------
\* The counts of a label do not change when its nonces' do not.
LEMMA RecBoughtStays ==
    ASSUME RecInv, served' = served, onDisk \subseteq onDisk',
           \A l \in RecLabels : capability'[l] = Unknown \/ capability'[l] = capability[l]
    PROVE  RecBought'
  BY DEF RecInv, RecBought, RecCallsOf, RecBytesOf

LEMMA RecIssueKeeps == ASSUME RecInv, NEW h \in RecHandles, RecIssue(h) PROVE RecInv'
<1> DEFINE zero == 0
           row == [state |-> "active", calls |-> zero, delivered |-> zero, next |-> zero, created |-> clock]
<1>1. /\ handle[h] = Unknown /\ handle' = [handle EXCEPT ![h] = row] /\ caller' = [caller EXCEPT ![h] = <<>>]
      /\ UNCHANGED <<usage, capability, onDisk, clock, served, recFaults>>
  BY DEF RecIssue
<1>2. zero \in Nat /\ zero = 0 /\ clock \in Nat
  BY DEF RecInv, RecTypeOK
<1> HIDE DEF zero
<1>3. row \in RecHandleRows /\ row.next = 0 /\ row.delivered = 0 /\ row.calls = 0
  BY <1>2 DEF RecHandleRows
<1> HIDE DEF row
<1>4. /\ handle' \in [RecHandles -> RecHandleRows \cup {Unknown}] /\ handle'[h] = row
      /\ \A g \in RecHandles : g # h => handle'[g] = handle[g] /\ caller'[g] = caller[g]
      /\ caller' \in [RecHandles -> Seq(Nat \X Nat)] /\ caller'[h] = <<>> /\ row # Unknown
  BY <1>1, <1>3, RecUnknownApart DEF RecInv, RecTypeOK
<1>5. RecTypeOK'
  BY <1>1, <1>4 DEF RecInv, RecTypeOK
<1>6. RecDelivered'
  <2>1. RecHandleSound(row) /\ RecHeard(<<>>, 0)
    BY <1>3, RecOffsets, RecLimits DEF RecHandleSound, RecHeard
  <2>2. RecNextOf' = RecNextOf
    BY <1>1, <1>3, <1>4 DEF RecNextOf
  <2> QED
    BY <1>1, <1>3, <1>4, <2>1, <2>2 DEF RecInv, RecDelivered
<1>7. RecBought'
  BY <1>1, RecBoughtStays
<1> QED
  BY <1>5, <1>6, <1>7 DEF RecInv

LEMMA RecRevokeKeeps == ASSUME RecInv, NEW h \in RecHandles, RecRevoke(h) PROVE RecInv'
<1>1. /\ handle[h] # Unknown /\ handle' = [handle EXCEPT ![h].state = "revoked"]
      /\ UNCHANGED <<usage, capability, onDisk, clock, caller, served, recFaults>>
      /\ handle \in [RecHandles -> RecHandleRows \cup {Unknown}]
  BY DEF RecRevoke, RecInv, RecTypeOK
<1>2. /\ handle'[h] \in RecHandleRows /\ handle'[h].next = handle[h].next /\ handle'[h].delivered = handle[h].delivered
      /\ handle'[h].calls = handle[h].calls /\ \A g \in RecHandles : g # h => handle'[g] = handle[g]
      /\ handle' \in [RecHandles -> RecHandleRows \cup {Unknown}]
  BY <1>1 DEF RecHandleRows
<1>3. handle'[h] # Unknown
  BY <1>2, RecUnknownApart
<1>4. RecTypeOK'
  BY <1>1, <1>2 DEF RecInv, RecTypeOK
<1>5. RecDelivered'
  <2>1. RecNextOf' = RecNextOf
    BY <1>1, <1>2, <1>3 DEF RecNextOf
  <2>2. \A g \in RecHandles : RecHandleSound(handle'[g])
    BY <1>1, <1>2, <1>3 DEF RecInv, RecDelivered, RecHandleSound
  <2>3. \A g \in RecHandles : IF handle'[g] = Unknown THEN caller'[g] = <<>> ELSE RecHeard(caller'[g], handle'[g].next)
    BY <1>1, <1>2, <1>3 DEF RecInv, RecDelivered
  <2> QED
    BY <1>1, <2>1, <2>2, <2>3 DEF RecInv, RecDelivered
<1>6. RecBought'
  BY <1>1, RecBoughtStays
<1> QED
  BY <1>4, <1>5, <1>6 DEF RecInv

LEMMA RecAskKeeps ==
    ASSUME RecInv, NEW h \in RecHandles, NEW cursor, NEW outcome, RecAsk(h, cursor, outcome)
    PROVE  RecInv'
<1>1. /\ cursor \in CursorsOf(h) /\ handle' = [handle EXCEPT ![h] = Decision(h, cursor, outcome).record]
      /\ usage' = Decision(h, cursor, outcome).usage /\ Arrives(h, Decision(h, cursor, outcome).chunk)
      /\ UNCHANGED <<capability, onDisk, clock, served>>
  BY DEF RecAsk
<1>2. /\ handle' \in [RecHandles -> RecHandleRows \cup {Unknown}] /\ usage' \in RecCounts
      /\ caller' \in [RecHandles -> Seq(Nat \X Nat)] /\ RecDelivered'
  BY <1>1, RecDelivers
<1>3. RecTypeOK'
  BY <1>1, <1>2 DEF RecInv, RecTypeOK
<1>4. RecBought'
  BY <1>1, RecBoughtStays
<1> QED
  BY <1>2, <1>3, <1>4 DEF RecInv

LEMMA RecFilesApart == \A l, m, n : <<l>> # <<m, n>>
<1> SUFFICES ASSUME NEW l, NEW m, NEW n PROVE <<l>> # <<m, n>>
  OBVIOUS
<1>1. Len(<<l>>) = 1 /\ Len(<<m, n>>) = 2
  OBVIOUS
<1> QED
  BY <1>1

\* A label is issued for nobody who had it before: nothing was bought with it.
LEMMA CapIssueKeeps ==
    ASSUME RecInv, NEW l \in RecLabels, NEW p \in RecPeers, CapIssue(l, p)
    PROVE  RecInv'
<1> DEFINE zero == 0
           until == clock + CapTtl
           row == [state |-> "issued", peer |-> p, expires |-> until, calls |-> zero, bytes |-> zero]
<1>1. /\ <<l>> \notin onDisk /\ capability' = [capability EXCEPT ![l] = row] /\ onDisk' = onDisk \cup {<<l>>}
      /\ UNCHANGED <<handle, usage, clock, caller, served, recFaults>>
  BY DEF CapIssue
<1>2. zero \in Nat /\ zero = 0 /\ until \in Nat
  BY RecLimits DEF RecInv, RecTypeOK
<1> HIDE DEF zero, until
<1>3. row \in RecCapRows /\ row.calls = 0 /\ row.bytes = 0
  BY <1>2 DEF RecCapRows
<1> HIDE DEF row
<1>4. /\ capability' \in [RecLabels -> RecCapRows \cup {Unknown}] /\ capability'[l] = row
      /\ \A m \in RecLabels : m # l => capability'[m] = capability[m]
  BY <1>1, <1>3 DEF RecInv, RecTypeOK
<1>5. RecTypeOK'
  BY <1>1, <1>4 DEF RecInv, RecTypeOK
<1>6. RecDelivered'
  BY <1>1 DEF RecInv, RecDelivered, RecNextOf
<1>7. RecBought'
  <2>1. SumOf(RecCallsOf(l), RecNonces) = 0 /\ SumOf(RecBytesOf(l), RecNonces) = 0
    <3>1. \A n \in RecNonces : RecCallsOf(l)[n] = 0 /\ RecBytesOf(l)[n] = 0
      BY <1>1 DEF RecInv, RecBought, RecCallsOf, RecBytesOf
    <3> QED
      BY <3>1, RecAssumption, SumOfNothing
  <2> SUFFICES ASSUME NEW m \in RecLabels
               PROVE  /\ SumOf(RecCallsOf(m)', RecNonces) <= CapCalls /\ SumOf(RecBytesOf(m)', RecNonces) <= CapBytes
                      /\ capability'[m] # Unknown =>
                            /\ <<m>> \in onDisk'
                            /\ capability'[m].calls = SumOf(RecCallsOf(m)', RecNonces)
                            /\ capability'[m].bytes = SumOf(RecBytesOf(m)', RecNonces)
                      /\ \A n \in RecNonces :
                            /\ served'[<<m, n>>].calls <= 1
                            /\ (<<m>> \notin onDisk' \/ <<m, n>> \notin onDisk') =>
                                  served'[<<m, n>>].calls = 0 /\ served'[<<m, n>>].bytes = 0
    BY DEF RecBought
  <2>2. RecCallsOf(m)' = RecCallsOf(m) /\ RecBytesOf(m)' = RecBytesOf(m)
    BY <1>1 DEF RecCallsOf, RecBytesOf
  <2>3. CASE m = l
    BY <1>1, <1>3, <1>4, <2>1, <2>2, <2>3 DEF RecInv, RecBought
  <2>4. CASE m # l
    BY <1>1, <1>4, <2>2, <2>4 DEF RecInv, RecBought
  <2> QED
    BY <2>3, <2>4
<1> QED
  BY <1>5, <1>6, <1>7 DEF RecInv

LEMMA RecTickKeeps == RecInv /\ RecTick => RecInv'
<1> SUFFICES ASSUME RecInv, RecTick PROVE RecInv'
  OBVIOUS
<1>1. clock' = clock + 1 /\ UNCHANGED <<handle, usage, capability, onDisk, caller, served, recFaults>>
  BY DEF RecTick
<1>2. RecTypeOK'
  BY <1>1 DEF RecInv, RecTypeOK
<1>3. RecDelivered'
  BY <1>1 DEF RecInv, RecDelivered, RecNextOf
<1>4. RecBought'
  BY <1>1, RecBoughtStays
<1> QED
  BY <1>2, <1>3, <1>4 DEF RecInv

\* What is left of a process that ended: no handles, no capabilities, the files.
RecForgets ==
    /\ handle = [h \in RecHandles |-> Unknown] /\ usage = [calls |-> 0, bytes |-> 0]
    /\ capability = [l \in RecLabels |-> Unknown] /\ caller = [h \in RecHandles |-> <<>>]

RecSettled ==
    /\ handle \in [RecHandles -> RecHandleRows \cup {Unknown}] /\ usage \in RecCounts
    /\ capability \in [RecLabels -> RecCapRows \cup {Unknown}]
    /\ caller \in [RecHandles -> Seq(Nat \X Nat)] /\ RecDelivered

LEMMA RecForgotten == RecForgets => RecSettled
<1> SUFFICES ASSUME RecForgets PROVE RecSettled
  OBVIOUS
<1> USE DEF RecForgets
<1> DEFINE zero == 0
<1>1. zero \in Nat /\ zero = 0 /\ usage = [calls |-> zero, bytes |-> zero]
  OBVIOUS
<1> HIDE DEF zero
<1>2. usage \in RecCounts /\ usage.calls = 0 /\ usage.bytes = 0
  BY <1>1 DEF RecCounts
<1>3. \A h \in RecHandles : handle[h] = Unknown /\ caller[h] = <<>>
  OBVIOUS
<1>4. SumOf(RecNextOf, RecHandles) = 0
  <2>1. \A h \in RecHandles : RecNextOf[h] = 0
    BY <1>3 DEF RecNextOf
  <2> QED
    BY <2>1, RecAssumption, SumOfNothing
<1>5. RecDelivered
  BY <1>2, <1>3, <1>4, RecLimits DEF RecDelivered, RecHandleSound
<1>6. caller \in [RecHandles -> Seq(Nat \X Nat)]
  OBVIOUS
<1> QED
  BY <1>2, <1>5, <1>6 DEF RecSettled

LEMMA RecForgottenNext == RecForgets' => RecSettled'
  BY RecForgotten, PTL

LEMMA RecRestartKeeps == RecInv /\ RecRestart => RecInv'
<1> SUFFICES ASSUME RecInv, RecRestart PROVE RecInv'
  OBVIOUS
<1>1. /\ handle' = [h \in RecHandles |-> Unknown] /\ usage' = [calls |-> 0, bytes |-> 0]
      /\ capability' = [l \in RecLabels |-> Unknown] /\ caller' = [h \in RecHandles |-> <<>>]
      /\ onDisk \subseteq onDisk' /\ UNCHANGED <<clock, served>>
  BY DEF RecRestart
<1>2. /\ handle' \in [RecHandles -> RecHandleRows \cup {Unknown}] /\ usage' \in RecCounts
      /\ capability' \in [RecLabels -> RecCapRows \cup {Unknown}]
      /\ caller' \in [RecHandles -> Seq(Nat \X Nat)] /\ RecDelivered'
  BY <1>1, RecForgottenNext DEF RecForgets, RecSettled
<1>3. RecTypeOK'
  BY <1>1, <1>2 DEF RecInv, RecTypeOK
<1>4. RecBought'
  BY <1>1, RecBoughtStays
<1> QED
  BY <1>2, <1>3, <1>4 DEF RecInv

LEMMA RecInitHolds == RecInit => RecInv
<1> SUFFICES ASSUME RecInit PROVE RecInv
  OBVIOUS
<1> DEFINE zero == 0
           empty == [calls |-> zero, bytes |-> zero]
<1>1. /\ handle = [h \in RecHandles |-> Unknown] /\ usage = [calls |-> 0, bytes |-> 0]
      /\ capability = [l \in RecLabels |-> Unknown] /\ caller = [h \in RecHandles |-> <<>>]
      /\ onDisk = {} /\ clock = 0 /\ served = [bought \in RecLabels \X RecNonces |-> empty]
  BY DEF RecInit
<1>2. zero \in Nat /\ zero = 0
  OBVIOUS
<1> HIDE DEF zero
<1>3. empty \in RecCounts /\ empty.calls = 0 /\ empty.bytes = 0
  BY <1>2 DEF RecCounts
<1> HIDE DEF empty
<1>4. /\ handle \in [RecHandles -> RecHandleRows \cup {Unknown}] /\ usage \in RecCounts
      /\ capability \in [RecLabels -> RecCapRows \cup {Unknown}]
      /\ caller \in [RecHandles -> Seq(Nat \X Nat)] /\ RecDelivered
  BY <1>1, RecForgotten DEF RecForgets, RecSettled
<1>5. RecTypeOK
  BY <1>1, <1>3, <1>4 DEF RecTypeOK
<1>6. RecBought
  <2>1. \A l \in RecLabels, n \in RecNonces : served[<<l, n>>] = empty
    BY <1>1
  <2>2. \A l \in RecLabels : SumOf(RecCallsOf(l), RecNonces) = 0 /\ SumOf(RecBytesOf(l), RecNonces) = 0
    <3> SUFFICES ASSUME NEW l \in RecLabels PROVE SumOf(RecCallsOf(l), RecNonces) = 0 /\ SumOf(RecBytesOf(l), RecNonces) = 0
      OBVIOUS
    <3>1. \A n \in RecNonces : RecCallsOf(l)[n] = 0 /\ RecBytesOf(l)[n] = 0
      BY <1>3, <2>1 DEF RecCallsOf, RecBytesOf
    <3> QED
      BY <3>1, RecAssumption, SumOfNothing
  <2> QED
    BY <1>1, <1>3, <2>1, <2>2, RecLimits DEF RecBought
<1> QED
  BY <1>4, <1>5, <1>6 DEF RecInv

\* What the bridge's request costs its capability.
LEMMA RecSupply ==
    ASSUME RecInv, NEW h \in RecHandles, NEW cursor, NEW outcome
    PROVE  /\ Bytes(Decision(h, cursor, outcome).chunk) \in Nat
           /\ Bytes(Decision(h, cursor, outcome).chunk) <= OriginalBytes
           /\ ~Decision(h, cursor, outcome).invoked => Bytes(Decision(h, cursor, outcome).chunk) = 0
<1> DEFINE d == Decision(h, cursor, outcome)
<1>1. CASE handle[h] = Unknown
  <2>1. d.chunk = <<>>
    BY <1>1, RecDecidesNothing
  <2> QED
    BY <2>1, RecOffsets DEF Bytes
<1>2. CASE handle[h] # Unknown
  <2>1. PICK bytes \in Nat : RecMoves(handle[h], d, bytes) /\ (bytes > 0 => d.invoked)
    BY <1>2, RecDecides
  <2>2. handle[h].next \in Nat
    BY <1>2 DEF RecInv, RecTypeOK, RecHandleRows
  <2> HIDE DEF d
  <2>3. bytes <= OriginalBytes /\ d.chunk = IF bytes = 0 THEN <<>> ELSE <<handle[h].next, handle[h].next + bytes>>
    BY <2>1 DEF RecMoves
  <2>4. Bytes(d.chunk) = bytes
    BY <2>2, <2>3 DEF Bytes
  <2> QED
    BY <2>1, <2>3, <2>4 DEF d
<1> QED
  BY <1>1, <1>2

LEMMA RecBridgeKeeps ==
    ASSUME RecInv, NEW l \in RecLabels, NEW p \in RecPeers, NEW n \in RecNonces, NEW outcome,
           BridgeRecover(l, p, n, outcome)
    PROVE  RecInv'
<1> DEFINE d == Decision(BridgeHandle, 0, outcome)
           size == Bytes(d.chunk)
           one == IF d.invoked THEN 1 ELSE 0
<1>1. /\ capability[l] # Unknown /\ <<l, n>> \notin onDisk /\ onDisk' = onDisk \cup {<<l, n>>} /\ clock' = clock
  BY DEF BridgeRecover, Authorized, Fresh
<1>2. CASE ~WithinCapability(l)
  <2>1. UNCHANGED <<handle, usage, capability, served, caller>>
    BY <1>2 DEF BridgeRecover
  <2>2. RecTypeOK' /\ RecDelivered'
    BY <1>1, <2>1 DEF RecInv, RecTypeOK, RecDelivered, RecNextOf
  <2>3. RecBought'
    BY <1>1, <2>1, RecBoughtStays
  <2> QED
    BY <2>2, <2>3 DEF RecInv
<1>3. CASE WithinCapability(l)
  <2>1. /\ handle' = [handle EXCEPT ![BridgeHandle] = d.record] /\ usage' = d.usage /\ Arrives(BridgeHandle, d.chunk)
        /\ capability' = [capability EXCEPT ![l].calls = @ + one, ![l].bytes = @ + size]
        /\ served' = IF d.invoked
                     THEN [served EXCEPT ![<<l, n>>] = [calls |-> @.calls + 1, bytes |-> @.bytes + size]]
                     ELSE served
    BY <1>3 DEF BridgeRecover
  <2>2. /\ handle' \in [RecHandles -> RecHandleRows \cup {Unknown}] /\ usage' \in RecCounts
        /\ caller' \in [RecHandles -> Seq(Nat \X Nat)] /\ RecDelivered'
    <3>1. 0 \in CursorsOf(BridgeHandle) /\ BridgeHandle \in RecHandles
      BY RecAssumption DEF CursorsOf
    <3> QED
      BY <2>1, <3>1, RecDelivers
  <2>3. size \in Nat /\ size <= OriginalBytes /\ (~d.invoked => size = 0) /\ one \in Nat /\ one <= 1 /\ (~d.invoked => one = 0)
        /\ (d.invoked => one = 1)
    BY RecAssumption, RecSupply
  <2>4. /\ capability \in [RecLabels -> RecCapRows \cup {Unknown}] /\ capability[l] \in RecCapRows /\ OriginalBytes \in Nat
        /\ served \in [RecLabels \X RecNonces -> RecCounts] /\ RecBought /\ clock \in Nat
    BY <1>1, RecOffsets DEF RecInv, RecTypeOK
  <2> DEFINE invoked == d.invoked
  <2> HIDE DEF one, size, d, invoked
  <2>5. /\ capability[l].calls \in Nat /\ capability[l].bytes \in Nat
        /\ capability[l].calls + 1 <= CapCalls /\ capability[l].bytes + OriginalBytes <= CapBytes
    BY <1>3, <2>4, RecLimits DEF WithinCapability, RecCapRows
  <2>6. /\ capability'[l] \in RecCapRows /\ capability'[l].calls = capability[l].calls + one
        /\ capability'[l].bytes = capability[l].bytes + size
        /\ \A m \in RecLabels : m # l => capability'[m] = capability[m]
        /\ capability' \in [RecLabels -> RecCapRows \cup {Unknown}]
    <3>1. capability[l].calls + one \in Nat /\ capability[l].bytes + size \in Nat
      BY <2>3, <2>5
    <3> DEFINE calls == capability[l].calls + one
               bytes == capability[l].bytes + size
               row == [capability[l] EXCEPT !.calls = calls, !.bytes = bytes]
    <3>2. capability' = [capability EXCEPT ![l] = row]
      BY <2>1, <2>4
    <3> HIDE DEF calls, bytes
    <3>3. row \in RecCapRows /\ row.calls = calls /\ row.bytes = bytes
      BY <2>4, <3>1 DEF RecCapRows, calls, bytes
    <3> HIDE DEF row
    <3> QED
      BY <2>4, <3>2, <3>3 DEF calls, bytes
  <2>7. served[<<l, n>>].calls = 0 /\ served[<<l, n>>].bytes = 0
    BY <1>1, <2>4 DEF RecBought
  <2>8. /\ served' \in [RecLabels \X RecNonces -> RecCounts]
        /\ served'[<<l, n>>].calls = one /\ served'[<<l, n>>].bytes = size
        /\ \A m \in RecLabels, o \in RecNonces : <<m, o>> # <<l, n>> => served'[<<m, o>>] = served[<<m, o>>]
    <3>1. <<l, n>> \in RecLabels \X RecNonces
      OBVIOUS
    <3>2. CASE d.invoked
      <4> DEFINE given == [calls |-> served[<<l, n>>].calls + 1, bytes |-> served[<<l, n>>].bytes + size]
      <4>1. served' = [served EXCEPT ![<<l, n>>] = given]
        BY <2>1, <3>2
      <4>2. given.calls = one /\ given.bytes = size /\ given \in RecCounts
        BY <2>3, <2>7, <3>2 DEF RecCounts
      <4> HIDE DEF given
      <4> QED
        BY <2>4, <3>1, <4>1, <4>2
    <3>3. CASE ~d.invoked
      BY <2>1, <2>3, <2>4, <2>7, <3>3
    <3> QED
      BY <3>2, <3>3
  <2>9. RecTypeOK'
    BY <1>1, <2>2, <2>4, <2>6, <2>8 DEF RecTypeOK
  <2>10. RecBought'
    <3> SUFFICES ASSUME NEW m \in RecLabels
                 PROVE  /\ SumOf(RecCallsOf(m)', RecNonces) <= CapCalls /\ SumOf(RecBytesOf(m)', RecNonces) <= CapBytes
                        /\ capability'[m] # Unknown =>
                              /\ <<m>> \in onDisk'
                              /\ capability'[m].calls = SumOf(RecCallsOf(m)', RecNonces)
                              /\ capability'[m].bytes = SumOf(RecBytesOf(m)', RecNonces)
                        /\ \A o \in RecNonces :
                              /\ served'[<<m, o>>].calls <= 1
                              /\ (<<m>> \notin onDisk' \/ <<m, o>> \notin onDisk') =>
                                    served'[<<m, o>>].calls = 0 /\ served'[<<m, o>>].bytes = 0
      BY DEF RecBought
    <3>1. CASE m # l
      <4>1. \A o \in RecNonces : served'[<<m, o>>] = served[<<m, o>>]
        BY <2>8, <3>1
      <4>2. RecCallsOf(m)' = RecCallsOf(m) /\ RecBytesOf(m)' = RecBytesOf(m)
        BY <4>1 DEF RecCallsOf, RecBytesOf
      <4> QED
        BY <1>1, <2>4, <2>6, <3>1, <4>1, <4>2 DEF RecBought
    <3>2. CASE m = l
      <4>1. /\ SumOf(RecCallsOf(l)', RecNonces) = SumOf(RecCallsOf(l), RecNonces) + one
            /\ SumOf(RecBytesOf(l)', RecNonces) = SumOf(RecBytesOf(l), RecNonces) + size
        <5>1. \A o \in RecNonces :
                 /\ served[<<l, o>>].calls \in Nat /\ served[<<l, o>>].bytes \in Nat
                 /\ served'[<<l, o>>].calls \in Nat /\ served'[<<l, o>>].bytes \in Nat
                 /\ o # n => served'[<<l, o>>] = served[<<l, o>>]
          BY <2>4, <2>8 DEF RecCounts
        <5>2. /\ \A o \in RecNonces : RecCallsOf(l)[o] \in Nat /\ RecCallsOf(l)'[o] \in Nat
              /\ \A o \in RecNonces \ {n} : RecCallsOf(l)'[o] = RecCallsOf(l)[o]
              /\ RecCallsOf(l)'[n] - RecCallsOf(l)[n] = one
          BY <2>3, <2>7, <2>8, <5>1 DEF RecCallsOf
        <5>3. /\ \A o \in RecNonces : RecBytesOf(l)[o] \in Nat /\ RecBytesOf(l)'[o] \in Nat
              /\ \A o \in RecNonces \ {n} : RecBytesOf(l)'[o] = RecBytesOf(l)[o]
              /\ RecBytesOf(l)'[n] - RecBytesOf(l)[n] = size
          BY <2>3, <2>7, <2>8, <5>1 DEF RecBytesOf
        <5>4. Total(RecCallsOf(l)', RecNonces) = Total(RecCallsOf(l), RecNonces) + (RecCallsOf(l)'[n] - RecCallsOf(l)[n])
          BY <5>2, RecAssumption, TotalChange
        <5>5. Total(RecBytesOf(l)', RecNonces) = Total(RecBytesOf(l), RecNonces) + (RecBytesOf(l)'[n] - RecBytesOf(l)[n])
          BY <5>3, RecAssumption, TotalChange
        <5> QED
          BY <5>2, <5>3, <5>4, <5>5 DEF SumOf, Total
      <4>2. /\ <<l>> \in onDisk /\ capability[l].calls = SumOf(RecCallsOf(l), RecNonces)
            /\ capability[l].bytes = SumOf(RecBytesOf(l), RecNonces)
        BY <1>1, <2>4 DEF RecBought
      <4>3. /\ SumOf(RecCallsOf(l)', RecNonces) = capability[l].calls + one
            /\ SumOf(RecBytesOf(l)', RecNonces) = capability[l].bytes + size
        BY <4>1, <4>2
      <4>4. capability[l].calls + one <= CapCalls /\ capability[l].bytes + size <= CapBytes
        BY <2>3, <2>4, <2>5, RecLimits
      <4>5. /\ served'[<<l, n>>].calls <= 1
            /\ \A o \in RecNonces : o # n => served'[<<l, o>>] = served[<<l, o>>]
        BY <2>3, <2>8
      <4>6. ASSUME NEW o \in RecNonces
            PROVE  /\ served'[<<l, o>>].calls <= 1
                   /\ (<<l>> \notin onDisk' \/ <<l, o>> \notin onDisk') =>
                         served'[<<l, o>>].calls = 0 /\ served'[<<l, o>>].bytes = 0
        <5>1. CASE o = n
          BY <1>1, <4>2, <4>5, <5>1
        <5>2. CASE o # n
          BY <1>1, <2>4, <4>2, <4>5, <5>2 DEF RecBought
        <5> QED
          BY <5>1, <5>2
      <4>7. <<l>> \in onDisk' /\ capability'[l].calls = SumOf(RecCallsOf(l)', RecNonces)
            /\ capability'[l].bytes = SumOf(RecBytesOf(l)', RecNonces)
        BY <1>1, <2>6, <4>2, <4>3
      <4> QED
        BY <3>2, <4>3, <4>4, <4>6, <4>7
    <3> QED
      BY <3>1, <3>2
  <2> QED
    BY <2>2, <2>9, <2>10 DEF RecInv
<1> QED
  BY <1>2, <1>3

LEMMA RecGranted == RecInv => RecWhatWasGranted
<1> SUFFICES ASSUME RecInv PROVE RecWhatWasGranted
  OBVIOUS
<1>1. RecReceivedIsPrefix
  <2> SUFFICES ASSUME NEW h \in RecHandles
               PROVE  /\ \A i \in DOMAIN caller[h] : caller[h][i][1] = IF i = 1 THEN 0 ELSE caller[h][i - 1][2]
                      /\ \A chunk \in ToSet(caller[h]) : chunk[1] \in Offsets /\ chunk[2] \in Offsets
    BY DEF RecReceivedIsPrefix
  <2>1. caller[h] \in Seq(Nat \X Nat) /\ DOMAIN caller[h] = 1 .. Len(caller[h])
    BY DEF RecInv, RecTypeOK
  <2>2. CASE handle[h] = Unknown
    BY <2>2 DEF RecInv, RecDelivered, ToSet
  <2>3. CASE handle[h] # Unknown
    <3>1. RecHeard(caller[h], handle[h].next)
      BY <2>3 DEF RecInv, RecDelivered
    <3>2. \A i \in 1 .. Len(caller[h]) : /\ caller[h][i][1] = IF i = 1 THEN 0 ELSE caller[h][i - 1][2]
                                        /\ caller[h][i][1] \in Offsets /\ caller[h][i][2] \in Offsets
      BY <3>1 DEF RecHeard
    <3> QED
      BY <2>1, <3>2 DEF ToSet
  <2> QED
    BY <2>2, <2>3
<1>2. RecQuotasHeld
  <2>1. \A l \in RecLabels :
          /\ SumOf(RecCallsOf(l), RecNonces) <= CapCalls
          /\ SumOf(RecBytesOf(l), RecNonces) <= CapBytes
          /\ \A n \in RecNonces : served[<<l, n>>].calls <= 1
    BY DEF RecInv, RecBought
  <2>2. usage.calls <= RecTrialCalls /\ usage.bytes <= RecTrialBytes /\ usage.bytes = SumOf(RecNextOf, RecHandles)
    BY DEF RecInv, RecDelivered
  <2>3. ASSUME NEW h \in RecHandles, handle[h] # Unknown
        PROVE  handle[h].next <= RecMaxTotal /\ handle[h].calls <= RecMaxCalls
    BY <2>3 DEF RecInv, RecDelivered, RecHandleSound
  <2> QED
    BY <2>1, <2>2, <2>3 DEF RecQuotasHeld, RecCallsOf, RecBytesOf, RecNextOf
<1> QED
  BY <1>1, <1>2 DEF RecWhatWasGranted

LEMMA RecStep == RecInv /\ [RecNext]_recVars => RecInv'
<1> SUFFICES ASSUME RecInv, [RecNext]_recVars PROVE RecInv'
  OBVIOUS
<1>1. CASE UNCHANGED recVars
  <2>1. UNCHANGED <<handle, usage, capability, onDisk, clock, caller, served>>
    BY <1>1 DEF recVars
  <2>2. RecTypeOK' /\ RecDelivered'
    BY <2>1 DEF RecInv, RecTypeOK, RecDelivered, RecNextOf
  <2>3. RecBought'
    BY <2>1, RecBoughtStays
  <2> QED
    BY <2>2, <2>3 DEF RecInv
<1>2. CASE RecNext
  BY <1>2, RecIssueKeeps, RecRevokeKeeps, RecAskKeeps, CapIssueKeeps, RecBridgeKeeps, RecTickKeeps, RecRestartKeeps
     DEF RecNext
<1> QED
  BY <1>1, <1>2

\* For any originals, handles, labels, nonces and limits: what a caller holds
\* is a prefix of the original cut between characters, a nonce buys at most one
\* supplier call, a capability no more than its quotas, also across restarts,
\* and the trial's limits hold for both ways in together
\* (RecoveryAdapter.recover, LocalRecoveryBridge._recover).
THEOREM RecAlwaysAsGranted == RecSpec => []RecWhatWasGranted
<1>1. RecSpec => []RecInv
  BY RecInitHolds, RecStep, PTL DEF RecSpec
<1> QED
  BY <1>1, RecGranted, PTL

(***************************************************************************)
(* CacheCycle.                                                             *)
(***************************************************************************)

CcKeys == ToSet(CcConditions) \X CcTasks
CcRowsOf == ToSet(CcConditions) \X Nat
CcProcessRows ==
    [pc : {"start", "admitted", "bundle", "contrasts", "ended"}, row : Nat, observed : [CcTasks -> Nat],
     refused : BOOLEAN, completed : [CcKeys -> Seq(Nat)], bundles : Seq(BOOLEAN)]
CcRecords == [row : CcRowsOf, requests : [CcTasks -> Nat], valid : BOOLEAN]
CcDirectories ==
    [owner : CcProcesses \cup {"none"}, records : Seq(CcRecords), cycle : {"none", "whole", "part"}, failure : Nat \cup {-1}]

CcTypeOK ==
    /\ process \in [CcProcesses -> CcProcessRows]
    /\ directory \in CcDirectories
    /\ DOMAIN probe = CcProcesses
    /\ DOMAIN probeFile = {"owner", "decision"}

\* What the records say, whoever wrote them.
CcRecordsAgree(records) ==
    /\ Len(records) <= Len(CycleRows)
    /\ \A i \in 1 .. Len(records) : records[i].row = CycleRows[i]
    /\ \A i \in 1 .. Len(records) : i < Len(records) => records[i].valid
    /\ \A i, j \in 1 .. Len(records) : records[i].row[1] = records[j].row[1] => records[i].requests = records[j].requests

CcFilesAgree(folder) ==
    /\ CcRecordsAgree(folder.records)
    /\ folder.cycle # "none" => Len(folder.records) = Len(CycleRows) /\ \A i \in 1 .. Len(folder.records) : folder.records[i].valid
    /\ folder.failure # -1 => folder.failure - Len(folder.records) \in {0, 1}

\* Where a process is before it has a directory, and what it holds while it
\* writes one: the files are its bundles so far, and its tracker has each of
\* them in the history of its condition.
CcFirst(r) == r.row = 1 /\ r.bundles = <<>> /\ \A b \in CcKeys : r.completed[b] = <<>>
CcKnows(r, noted) ==
    \A t \in CcTasks : \E k \in 1 .. Len(r.completed[<<noted.row[1], t>>]) :
        r.completed[<<noted.row[1], t>>][k] = noted.requests[t]
CcWrites(r, folder) ==
    /\ Len(folder.records) = Len(r.bundles) /\ Len(folder.records) = r.row - 1
    /\ folder.cycle = "none" /\ folder.failure = -1
    /\ \A i \in 1 .. Len(folder.records) : folder.records[i].valid /\ CcKnows(r, folder.records[i])
    /\ r.pc = "bundle" => r.row <= Len(CycleRows)
    /\ r.pc = "contrasts" => r.row = Len(CycleRows) + 1
Writing(r) == r.pc \in {"bundle", "contrasts"}

CcStory ==
    /\ CcFilesAgree(directory)
    /\ directory.owner = "none" => directory.records = <<>> /\ directory.cycle = "none" /\ directory.failure = -1
    /\ \A p \in CcProcesses :
          /\ process[p].pc \in {"start", "admitted"} => CcFirst(process[p])
          /\ Writing(process[p]) => directory.owner = p /\ CcWrites(process[p], directory)

CpSound ==
    /\ \A p \in CcProcesses : probe[p].state = "reserved" => probeFile.owner = p /\ probeFile.decision = "none"
    /\ probeFile.decision # "none" => \E p \in CcProcesses : probeFile.owner = p /\ probe[p].state = "done"

CcInv == CcTypeOK /\ CcStory /\ CpSound

LEMMA CcPlan ==
    /\ Len(CycleRows) \in Nat /\ Len(CycleRows) >= 1 /\ DOMAIN CycleRows = 1 .. Len(CycleRows)
    /\ \A i \in 1 .. Len(CycleRows) : CycleRows[i] \in CcRowsOf
<1> DEFINE L == Len(CcConditions)
<1>1. L \in Nat /\ L >= 1 /\ \A k \in 1 .. L : CcConditions[k] \in ToSet(CcConditions)
  BY CcAssumption
<1> HIDE DEF L
<1>2. \A i \in 1 .. 3 * L : (i - 1) \div 3 + 1 \in 1 .. L /\ (i - 1) % 3 \in Nat
  BY <1>1
<1>3. 3 * L \in Nat /\ 3 * L >= 1 /\ CycleRows = [i \in 1 .. 3 * L |-> <<CcConditions[(i - 1) \div 3 + 1], (i - 1) % 3>>]
  BY <1>1 DEF CycleRows, L
<1>4. Len(CycleRows) = 3 * L /\ DOMAIN CycleRows = 1 .. 3 * L
  BY <1>3
<1>5. \A i \in 1 .. 3 * L : CycleRows[i] \in CcRowsOf
  <2> SUFFICES ASSUME NEW i \in 1 .. 3 * L PROVE CycleRows[i] \in CcRowsOf
    OBVIOUS
  <2>1. CycleRows[i] = <<CcConditions[(i - 1) \div 3 + 1], (i - 1) % 3>>
    BY <1>3
  <2>2. CcConditions[(i - 1) \div 3 + 1] \in ToSet(CcConditions) /\ (i - 1) % 3 \in Nat
    BY <1>1, <1>2
  <2> QED
    BY <2>1, <2>2 DEF CcRowsOf
<1> QED
  BY <1>3, <1>4, <1>5

\* A process that is not writing may change, if it does not begin to write.
LEMMA CcOthersKeep ==
    ASSUME CcInv, NEW p \in CcProcesses, process' \in [CcProcesses -> CcProcessRows],
           \A q \in CcProcesses : q # p => process'[q] = process[q],
           ~Writing(process'[p]), process'[p].pc \in {"start", "admitted"} => CcFirst(process'[p]),
           UNCHANGED <<directory, probe, probeFile>>
    PROVE  CcInv'
<1>1. CcTypeOK'
  BY DEF CcInv, CcTypeOK
<1>2. CcStory'
  BY DEF CcInv, CcStory
<1>3. CpSound'
  BY DEF CcInv, CpSound
<1> QED
  BY <1>1, <1>2, <1>3 DEF CcInv

LEMMA CpReserveKeeps == ASSUME CcInv, NEW p \in CcProcesses, CpReserve(p) PROVE CcInv'
<1>1. UNCHANGED <<process, directory>> /\ probe[p].state = "none" /\ DOMAIN probe = CcProcesses
  BY DEF CpReserve, CcInv, CcTypeOK
<1>2. \A q \in CcProcesses : q # p => probe'[q] = probe[q]
  BY <1>1 DEF CpReserve
<1>3. CASE probeFile.owner = "none"
  <2>1. /\ probeFile' = [owner |-> p, decision |-> "none"] /\ probe' = [probe EXCEPT ![p] = [state |-> "reserved"]]
    BY <1>3 DEF CpReserve
  <2>2. \A q \in CcProcesses : q # p => probe'[q].state # "reserved"
    BY <1>2, <1>3, CcAssumption DEF CcInv, CpSound
  <2> QED
    BY <1>1, <2>1, <2>2 DEF CcInv, CcTypeOK, CcStory, CpSound
<1>4. CASE probeFile.owner # "none"
  <2>1. probeFile' = probeFile /\ probe' = [probe EXCEPT ![p] = [state |-> "done", exit |-> 2]]
    BY <1>4 DEF CpReserve
  <2>2. probe'[p].state = "done" /\ DOMAIN probe' = CcProcesses
    BY <1>1, <2>1
  <2>3. CcTypeOK' /\ CcStory'
    BY <1>1, <2>1, <2>2 DEF CcInv, CcTypeOK, CcStory
  <2>4. CpSound'
    BY <1>1, <1>2, <2>1, <2>2 DEF CcInv, CpSound
  <2> QED
    BY <2>3, <2>4 DEF CcInv
<1> QED
  BY <1>3, <1>4

LEMMA CpProbeKeeps == ASSUME CcInv, NEW p \in CcProcesses, CpProbe(p) PROVE CcInv'
<1>1. /\ UNCHANGED <<process, directory>> /\ probe[p].state = "reserved" /\ DOMAIN probe = CcProcesses
      /\ DOMAIN probeFile = {"owner", "decision"}
  BY DEF CpProbe, CcInv, CcTypeOK
<1>2. /\ \A q \in CcProcesses : q # p => probe'[q] = probe[q]
      /\ probe'[p].state = "done" /\ DOMAIN probe' = CcProcesses /\ DOMAIN probeFile' = DOMAIN probeFile
      /\ probeFile'.owner = probeFile.owner
      /\ probeFile'.decision # probeFile.decision => probeFile.owner = p
  BY <1>1 DEF CpProbe, CcInv, CpSound
<1>3. probeFile.owner = p
  BY <1>1 DEF CcInv, CpSound
<1>4. \A q \in CcProcesses : probe'[q].state = "reserved" => FALSE
  <2> SUFFICES ASSUME NEW q \in CcProcesses, probe'[q].state = "reserved" PROVE FALSE
    OBVIOUS
  <2>1. q # p /\ probe[q].state = "reserved"
    BY <1>2
  <2> QED
    BY <1>3, <2>1 DEF CcInv, CpSound
<1>5. CpSound'
  BY <1>2, <1>3, <1>4 DEF CpSound
<1>6. CcTypeOK' /\ CcStory'
  BY <1>1, <1>2 DEF CcInv, CcTypeOK, CcStory
<1> QED
  BY <1>5, <1>6 DEF CcInv

LEMMA CcAdmitKeeps == ASSUME CcInv, NEW p \in CcProcesses, NEW passed, CcAdmit(p, passed) PROVE CcInv'
<1> DEFINE now == IF Doctor(passed) = "go" /\ directory.owner = "none" THEN "admitted" ELSE "ended"
<1>1. /\ process[p].pc = "start" /\ process' = [process EXCEPT ![p].pc = now]
      /\ UNCHANGED <<directory, probe, probeFile>> /\ process \in [CcProcesses -> CcProcessRows]
      /\ now \in {"admitted", "ended"}
  BY DEF CcAdmit, CcInv, CcTypeOK
<1> HIDE DEF now
<1>2. /\ process' \in [CcProcesses -> CcProcessRows] /\ process'[p] = [process[p] EXCEPT !.pc = now]
      /\ \A q \in CcProcesses : q # p => process'[q] = process[q]
  BY <1>1 DEF CcProcessRows
<1>3. /\ process'[p].pc = now /\ process'[p].row = process[p].row /\ process'[p].bundles = process[p].bundles
      /\ process'[p].completed = process[p].completed
  BY <1>1, <1>2 DEF CcProcessRows
<1>4. ~Writing(process'[p]) /\ CcFirst(process'[p])
  BY <1>1, <1>3 DEF CcInv, CcStory, CcFirst, Writing
<1> QED
  BY <1>1, <1>2, <1>4, CcOthersKeep

LEMMA CcMakeKeeps == ASSUME CcInv, NEW p \in CcProcesses, CcMakeDirectory(p) PROVE CcInv'
<1>1. /\ process[p].pc = "admitted" /\ UNCHANGED <<probe, probeFile>> /\ process \in [CcProcesses -> CcProcessRows]
      /\ directory \in CcDirectories /\ CcFirst(process[p])
  BY DEF CcMakeDirectory, CcInv, CcTypeOK, CcStory
<1>2. CASE Free
  <2>1. directory' = [directory EXCEPT !.owner = p] /\ process' = [process EXCEPT ![p].pc = "bundle"]
    BY <1>2 DEF CcMakeDirectory
  <2>2. /\ directory' \in CcDirectories /\ directory'.owner = p /\ directory'.records = directory.records
        /\ directory'.cycle = directory.cycle /\ directory'.failure = directory.failure
    BY <1>1, <2>1 DEF CcDirectories
  <2>3. /\ process' \in [CcProcesses -> CcProcessRows] /\ process'[p].pc = "bundle" /\ CcFirst(process'[p])
        /\ \A q \in CcProcesses : q # p => process'[q] = process[q]
    BY <1>1, <2>1 DEF CcProcessRows, CcFirst
  <2>4. directory.records = <<>> /\ directory.cycle = "none" /\ directory.failure = -1
    BY <1>2 DEF CcInv, CcStory, Free
  <2>5. \A q \in CcProcesses : ~Writing(process[q])
    BY <1>2, CcAssumption DEF CcInv, CcStory, Free
  <2>6. CcWrites(process'[p], directory')
    <3>1. Len(directory'.records) = 0 /\ Len(process'[p].bundles) = 0 /\ process'[p].row = 1 /\ process'[p].pc = "bundle"
          /\ directory'.cycle = "none" /\ directory'.failure = -1
      BY <2>2, <2>3, <2>4 DEF CcFirst
    <3> QED
      BY <3>1, CcPlan DEF CcWrites
  <2>7. CcTypeOK' /\ CpSound'
    BY <1>1, <2>2, <2>3 DEF CcInv, CcTypeOK, CpSound
  <2>8. CcFilesAgree(directory')
    BY <2>2 DEF CcInv, CcStory, CcFilesAgree
  <2>9. \A q \in CcProcesses :
          /\ process'[q].pc \in {"start", "admitted"} => CcFirst(process'[q])
          /\ Writing(process'[q]) => directory'.owner = q /\ CcWrites(process'[q], directory')
    <3> SUFFICES ASSUME NEW q \in CcProcesses
                 PROVE  /\ process'[q].pc \in {"start", "admitted"} => CcFirst(process'[q])
                        /\ Writing(process'[q]) => directory'.owner = q /\ CcWrites(process'[q], directory')
      OBVIOUS
    <3>1. CASE q = p
      BY <2>2, <2>3, <2>6, <3>1
    <3>2. CASE q # p
      BY <2>3, <2>5, <3>2 DEF CcInv, CcStory
    <3> QED
      BY <3>1, <3>2
  <2>10. directory'.owner # "none"
    BY <2>2, CcAssumption
  <2> QED
    BY <2>7, <2>8, <2>9, <2>10 DEF CcInv, CcStory
<1>3. CASE ~Free
  <2>1. process' = [process EXCEPT ![p].pc = "ended"] /\ directory' = directory
    BY <1>3 DEF CcMakeDirectory
  <2>2. /\ process' \in [CcProcesses -> CcProcessRows] /\ process'[p].pc = "ended"
        /\ \A q \in CcProcesses : q # p => process'[q] = process[q]
    BY <1>1, <2>1 DEF CcProcessRows
  <2> QED
    BY <1>1, <2>1, <2>2, CcOthersKeep DEF Writing
<1> QED
  BY <1>2, <1>3

LEMMA CcDiesKeeps == ASSUME CcInv, NEW p \in CcProcesses, CcDies(p) PROVE CcInv'
<1>1. process' = [process EXCEPT ![p].pc = "ended"] /\ UNCHANGED <<directory, probe, probeFile>>
      /\ process \in [CcProcesses -> CcProcessRows]
  BY DEF CcDies, CcInv, CcTypeOK
<1>2. /\ process' \in [CcProcesses -> CcProcessRows] /\ process'[p].pc = "ended"
      /\ \A q \in CcProcesses : q # p => process'[q] = process[q]
  BY <1>1 DEF CcProcessRows
<1> QED
  BY <1>1, <1>2, CcOthersKeep DEF Writing

\* The process that writes changes its own state and its files.
LEMMA CcWriterKeeps ==
    ASSUME CcInv, NEW p \in CcProcesses, Writing(process[p]), process' \in [CcProcesses -> CcProcessRows],
           \A q \in CcProcesses : q # p => process'[q] = process[q],
           process'[p].pc \notin {"start", "admitted"}, directory' \in CcDirectories, directory'.owner = p,
           CcFilesAgree(directory'), Writing(process'[p]) => CcWrites(process'[p], directory'),
           UNCHANGED <<probe, probeFile>>
    PROVE  CcInv'
<1>1. directory.owner = p /\ \A q \in CcProcesses : q # p => ~Writing(process[q])
  BY DEF CcInv, CcStory
<1>2. \A q \in CcProcesses :
        /\ process'[q].pc \in {"start", "admitted"} => CcFirst(process'[q])
        /\ Writing(process'[q]) => directory'.owner = q /\ CcWrites(process'[q], directory')
  <2> SUFFICES ASSUME NEW q \in CcProcesses
               PROVE  /\ process'[q].pc \in {"start", "admitted"} => CcFirst(process'[q])
                      /\ Writing(process'[q]) => directory'.owner = q /\ CcWrites(process'[q], directory')
    OBVIOUS
  <2>1. CASE q = p
    BY <2>1
  <2>2. CASE q # p
    BY <1>1, <2>2 DEF CcInv, CcStory
  <2> QED
    BY <2>1, <2>2
<1>3. CcTypeOK' /\ CpSound'
  BY DEF CcInv, CcTypeOK, CpSound
<1>4. directory'.owner # "none"
  BY CcAssumption
<1> QED
  BY <1>2, <1>3, <1>4 DEF CcInv, CcStory

LEMMA CcObserveKeeps ==
    ASSUME CcInv, NEW p \in CcProcesses, NEW t \in CcTasks, NEW screened, CcObserve(p, t, screened)
    PROVE  CcInv'
<1> DEFINE yes == TRUE
           count == [process[p].observed EXCEPT ![t] = @ + 1]
<1>1. /\ process[p].pc = "bundle" /\ process \in [CcProcesses -> CcProcessRows] /\ yes \in BOOLEAN
      /\ process' = [process EXCEPT ![p].observed = count] \/ process' = [process EXCEPT ![p].refused = yes]
      /\ UNCHANGED <<directory, probe, probeFile>>
  BY DEF CcObserve, CcInv, CcTypeOK
<1> HIDE DEF yes
<1>2. count \in [CcTasks -> Nat]
  BY <1>1 DEF CcProcessRows
<1> HIDE DEF count
<1>3. process' \in [CcProcesses -> CcProcessRows] /\ \A q \in CcProcesses : q # p => process'[q] = process[q]
  <2>1. /\ [process[p] EXCEPT !.observed = count] \in CcProcessRows
        /\ [process[p] EXCEPT !.refused = yes] \in CcProcessRows
    <3>1. process[p] \in CcProcessRows
      BY <1>1
    <3> QED
      BY <1>1, <1>2, <3>1 DEF CcProcessRows
  <2>2. CASE process' = [process EXCEPT ![p].observed = count]
    <3>1. process' = [process EXCEPT ![p] = [process[p] EXCEPT !.observed = count]]
      BY <2>2
    <3> QED
      BY <1>1, <2>1, <3>1
  <2>3. CASE process' = [process EXCEPT ![p].refused = yes]
    <3>1. process' = [process EXCEPT ![p] = [process[p] EXCEPT !.refused = yes]]
      BY <2>3
    <3> QED
      BY <1>1, <2>1, <3>1
  <2> QED
    BY <1>1, <2>2, <2>3
<1>4. /\ process'[p].pc = "bundle" /\ process'[p].row = process[p].row /\ process'[p].bundles = process[p].bundles
      /\ process'[p].completed = process[p].completed
  BY <1>1 DEF CcProcessRows
<1>5. /\ directory.owner = p /\ CcWrites(process[p], directory) /\ CcFilesAgree(directory) /\ directory \in CcDirectories
      /\ Writing(process[p])
  BY <1>1 DEF CcInv, CcTypeOK, CcStory, Writing
<1>6. CcWrites(process'[p], directory')
  BY <1>1, <1>4, <1>5 DEF CcWrites, CcKnows
<1> QED
  BY <1>1, <1>3, <1>4, <1>5, <1>6, CcWriterKeeps

\* The handler leaves files that agree, and counts what its process holds.
LEMMA CcFailsAgree ==
    ASSUME NEW p \in CcProcesses, NEW folder \in CcDirectories, CcFilesAgree(folder), folder.owner = p, Fails(p, folder),
           Len(process'[p].bundles) \in Nat, Len(process'[p].bundles) - Len(folder.records) \in {0, 1}
    PROVE  directory' \in CcDirectories /\ directory'.owner = p /\ CcFilesAgree(directory')
<1> DEFINE count == Len(process'[p].bundles)
<1> HIDE DEF count
<1>1. CASE directory' = folder
  BY <1>1
<1>2. CASE directory' = [folder EXCEPT !.failure = count]
  <2>1. count \in Nat \cup {-1} /\ count - Len(folder.records) \in {0, 1}
    BY DEF count
  <2>2. /\ directory' \in CcDirectories /\ directory'.owner = p /\ directory'.records = folder.records
        /\ directory'.cycle = folder.cycle /\ directory'.failure = count
    BY <1>2, <2>1 DEF CcDirectories
  <2>3. CcFilesAgree(directory')
    BY <2>1, <2>2 DEF CcFilesAgree
  <2> QED
    BY <2>2, <2>3
<1> QED
  BY <1>1, <1>2 DEF Fails, count

\* Any failure of a bundle before its record.
LEMMA CcRaiseKeeps ==
    ASSUME CcInv, NEW p \in CcProcesses, process[p].pc = "bundle", Raise(p), UNCHANGED <<probe, probeFile>>
    PROVE  CcInv'
<1>1. process' = [process EXCEPT ![p].pc = "ended"] /\ Fails(p, directory) /\ process \in [CcProcesses -> CcProcessRows]
  BY DEF Raise, CcInv, CcTypeOK
<1>2. /\ process' \in [CcProcesses -> CcProcessRows] /\ process'[p].pc = "ended"
      /\ process'[p].bundles = process[p].bundles /\ process[p].bundles \in Seq(BOOLEAN)
      /\ \A q \in CcProcesses : q # p => process'[q] = process[q]
  BY <1>1 DEF CcProcessRows
<1>3. /\ directory.owner = p /\ CcWrites(process[p], directory) /\ CcFilesAgree(directory) /\ directory \in CcDirectories
      /\ Writing(process[p])
  BY DEF CcInv, CcTypeOK, CcStory, Writing
<1>4. Len(process'[p].bundles) \in Nat /\ Len(process'[p].bundles) - Len(directory.records) \in {0, 1}
  BY <1>2, <1>3 DEF CcWrites
<1>5. directory' \in CcDirectories /\ directory'.owner = p /\ CcFilesAgree(directory')
  BY <1>1, <1>3, <1>4, CcFailsAgree
<1> QED
  BY <1>2, <1>3, <1>5, CcWriterKeeps DEF Writing

LEMMA CcRaisesKeeps == ASSUME CcInv, NEW p \in CcProcesses, CcBundleRaises(p) PROVE CcInv'
  BY CcRaiseKeeps DEF CcBundleRaises

LEMMA CcSummaryKeeps == ASSUME CcInv, NEW p \in CcProcesses, CcSummary(p) PROVE CcInv'
<1>1. /\ process[p].pc = "contrasts" /\ process' = [process EXCEPT ![p].pc = "ended"] /\ UNCHANGED <<probe, probeFile>>
      /\ process \in [CcProcesses -> CcProcessRows]
  BY DEF CcSummary, CcInv, CcTypeOK
<1>2. /\ process' \in [CcProcesses -> CcProcessRows] /\ process'[p].pc = "ended"
      /\ process'[p].bundles = process[p].bundles /\ process[p].bundles \in Seq(BOOLEAN)
      /\ \A q \in CcProcesses : q # p => process'[q] = process[q]
  BY <1>1 DEF CcProcessRows
<1>3. /\ directory.owner = p /\ CcWrites(process[p], directory) /\ CcFilesAgree(directory) /\ directory \in CcDirectories
      /\ Writing(process[p])
  BY <1>1 DEF CcInv, CcTypeOK, CcStory, Writing
<1>4. Len(process'[p].bundles) \in Nat /\ Len(process'[p].bundles) - Len(directory.records) \in {0, 1}
  BY <1>2, <1>3 DEF CcWrites
<1>5. ASSUME NEW left \in {"whole", "part"}
      PROVE  LET folder == [directory EXCEPT !.cycle = left] IN
             folder \in CcDirectories /\ CcFilesAgree(folder) /\ folder.owner = p /\ folder.records = directory.records
  <2> DEFINE folder == [directory EXCEPT !.cycle = left]
  <2>1. /\ folder \in CcDirectories /\ folder.owner = p /\ folder.records = directory.records
        /\ folder.failure = directory.failure
    BY <1>3 DEF CcDirectories
  <2>2. Len(directory.records) = Len(CycleRows) /\ \A i \in 1 .. Len(directory.records) : directory.records[i].valid
    BY <1>1, <1>2, <1>3, CcPlan DEF CcWrites
  <2> HIDE DEF folder
  <2>3. CcFilesAgree(folder)
    BY <1>3, <2>1, <2>2 DEF CcFilesAgree
  <2> QED
    BY <2>1, <2>3 DEF folder
<1>6. directory' \in CcDirectories /\ directory'.owner = p /\ CcFilesAgree(directory')
  <2>1. CASE directory' = [directory EXCEPT !.cycle = "whole"]
    BY <1>5, <2>1
  <2>2. CASE \E left \in {"whole", "part"} : Fails(p, [directory EXCEPT !.cycle = left])
    <3>1. PICK left \in {"whole", "part"} : Fails(p, [directory EXCEPT !.cycle = left])
      BY <2>2
    <3> DEFINE folder == [directory EXCEPT !.cycle = left]
    <3>2. folder \in CcDirectories /\ CcFilesAgree(folder) /\ folder.owner = p /\ folder.records = directory.records /\ Fails(p, folder)
      BY <1>5, <3>1
    <3> HIDE DEF folder
    <3> QED
      BY <1>4, <3>2, CcFailsAgree
  <2> QED
    BY <2>1, <2>2 DEF CcSummary
<1> QED
  BY <1>1, <1>2, <1>3, <1>6, CcWriterKeeps DEF Writing

\* A record more: its bundle is the next of the plan, and sent as many
\* requests as those of its condition before it.
LEMMA CcOneMore ==
    ASSUME CcInv, NEW p \in CcProcesses, process[p].pc = "bundle", SameCount(p), NEW complete \in BOOLEAN
    PROVE  LET written == [directory EXCEPT !.records = Append(@, Recorded(p, complete))] IN
           /\ written \in CcDirectories /\ written.owner = p /\ CcFilesAgree(written)
           /\ written.cycle = "none" /\ written.failure = -1 /\ Recorded(p, complete) \in CcRecords
           /\ written.records = Append(directory.records, Recorded(p, complete))
<1> DEFINE noted == Recorded(p, complete)
           records == directory.records
           more == Append(records, noted)
           written == [directory EXCEPT !.records = more]
           N == Len(records)
<1>1. /\ directory.owner = p /\ CcWrites(process[p], directory) /\ CcFilesAgree(directory) /\ directory \in CcDirectories
      /\ process[p] \in CcProcessRows
  BY DEF CcInv, CcTypeOK, CcStory, Writing
<1>2. /\ records \in Seq(CcRecords) /\ N \in Nat /\ process[p].row \in Nat /\ N = process[p].row - 1
      /\ process[p].row <= Len(CycleRows) /\ N + 1 = process[p].row
  BY <1>1, CcPlan DEF CcWrites, CcDirectories, CcProcessRows
<1>3. Row(p) = CycleRows[N + 1] /\ Row(p) \in CcRowsOf /\ N + 1 <= Len(CycleRows)
  BY <1>2, CcPlan DEF Row
<1>4. noted \in CcRecords /\ noted.row = Row(p) /\ noted.requests = process[p].observed /\ noted.valid = complete
  BY <1>1, <1>3 DEF Recorded, CcRecords, CcProcessRows
<1> HIDE DEF noted
<1>5. more \in Seq(CcRecords) /\ Len(more) = N + 1 /\ more[N + 1] = noted /\ \A i \in 1 .. N : more[i] = records[i]
  BY <1>2, <1>4
<1> HIDE DEF more, N
<1>6. /\ written \in CcDirectories /\ written.owner = p /\ written.records = more
      /\ written.cycle = "none" /\ written.failure = -1
  BY <1>1, <1>5 DEF CcDirectories, CcWrites
<1>7. ASSUME NEW i \in 1 .. N, records[i].row[1] = Row(p)[1]
      PROVE  records[i].requests = process[p].observed
  <2>1. records[i] \in CcRecords /\ records[i].requests \in [CcTasks -> Nat] /\ process[p].observed \in [CcTasks -> Nat]
    <3>1. records[i] \in CcRecords
      BY <1>2 DEF N
    <3> QED
      BY <1>1, <3>1 DEF CcRecords, CcProcessRows
  <2>2. CcKnows(process[p], records[i])
    BY <1>1 DEF CcWrites, N
  <2>3. ASSUME NEW t \in CcTasks PROVE records[i].requests[t] = process[p].observed[t]
    <3>1. <<Row(p)[1], t>> \in CcKeys
      BY <1>3 DEF CcRowsOf, CcKeys
    <3>2. History(p, t) \in Seq(Nat)
      BY <1>1, <3>1 DEF History, CcProcessRows
    <3>3. PICK k \in 1 .. Len(History(p, t)) : History(p, t)[k] = records[i].requests[t]
      BY <1>7, <2>2 DEF CcKnows, History
    <3>4. History(p, t)[k] = process[p].observed[t]
      BY <3>2, <3>3 DEF SameCount
    <3> QED
      BY <3>3, <3>4
  <2> QED
    BY <2>1, <2>3
<1>8. CcRecordsAgree(more)
  <2>1. CcRecordsAgree(records) /\ \A i \in 1 .. N : records[i].valid
    BY <1>1 DEF CcFilesAgree, CcWrites, N
  <2>2. \A i \in 1 .. N + 1 : i = N + 1 \/ i \in 1 .. N
    BY <1>2
  <2>3. \A i \in 1 .. N : i \in 1 .. Len(records)
    BY DEF N
  <2>4. \A i \in 1 .. N + 1 : more[i].row = CycleRows[i]
    BY <1>3, <1>4, <1>5, <2>1, <2>2, <2>3 DEF CcRecordsAgree
  <2>5. \A i \in 1 .. N + 1 : i < N + 1 => more[i].valid
    BY <1>5, <2>1, <2>2
  <2>6. \A i, j \in 1 .. N + 1 : more[i].row[1] = more[j].row[1] => more[i].requests = more[j].requests
    <3> SUFFICES ASSUME NEW i \in 1 .. N + 1, NEW j \in 1 .. N + 1, more[i].row[1] = more[j].row[1]
                 PROVE  more[i].requests = more[j].requests
      OBVIOUS
    <3>1. CASE i = N + 1 /\ j = N + 1
      BY <3>1
    <3>2. CASE i = N + 1 /\ j \in 1 .. N
      BY <1>4, <1>5, <1>7, <3>2
    <3>3. CASE i \in 1 .. N /\ j = N + 1
      BY <1>4, <1>5, <1>7, <3>3
    <3>4. CASE i \in 1 .. N /\ j \in 1 .. N
      BY <1>5, <2>1, <2>3, <3>4 DEF CcRecordsAgree
    <3> QED
      BY <2>2, <3>1, <3>2, <3>3, <3>4
  <2> QED
    BY <1>3, <1>5, <2>4, <2>5, <2>6 DEF CcRecordsAgree
<1> HIDE DEF written
<1>9. CcFilesAgree(written)
  BY <1>6, <1>8 DEF CcFilesAgree
<1> QED
  BY <1>4, <1>6, <1>9 DEF written, more, noted

CcAppends(r, c, requests, after) ==
    \A b \in CcKeys :
       after.completed[b] = IF b[1] = c THEN Append(r.completed[b], requests[b[2]]) ELSE r.completed[b]

\* The tracker of a process that finished one more bundle knows its record too.
LEMMA CcKnowsMore ==
    ASSUME NEW r \in CcProcessRows, NEW noted \in CcRecords, NEW requests \in [CcTasks -> Nat], NEW c, NEW after,
           CcAppends(r, c, requests, after),
           CcKnows(r, noted) \/ (noted.row[1] = c /\ noted.requests = requests)
    PROVE  CcKnows(after, noted)
<1> DEFINE completed == after.completed
<1> SUFFICES ASSUME NEW t \in CcTasks
             PROVE  \E k \in 1 .. Len(completed[<<noted.row[1], t>>]) :
                       completed[<<noted.row[1], t>>][k] = noted.requests[t]
  BY DEF CcKnows
<1> DEFINE b == <<noted.row[1], t>>
           old == r.completed[b]
<1>1. b \in CcKeys /\ b[1] = noted.row[1] /\ b[2] = t
  BY DEF CcRecords, CcRowsOf, CcKeys
<1>2. old \in Seq(Nat) /\ requests[t] \in Nat
  BY <1>1 DEF CcProcessRows
<1>3. completed[b] = IF noted.row[1] = c THEN Append(old, requests[t]) ELSE old
  BY <1>1 DEF CcAppends
<1>4. CcKnows(r, noted) => \E k \in 1 .. Len(old) : old[k] = noted.requests[t]
  BY DEF CcKnows
<1> HIDE DEF b, old, completed
<1>5. /\ Len(Append(old, requests[t])) = Len(old) + 1 /\ Append(old, requests[t])[Len(old) + 1] = requests[t]
      /\ \A k \in 1 .. Len(old) : Append(old, requests[t])[k] = old[k]
  BY <1>2
<1>6. Len(old) \in Nat
  BY <1>2
<1>7. CASE noted.row[1] = c /\ noted.requests = requests
  <2>1. Len(old) + 1 \in 1 .. Len(completed[b])
    BY <1>3, <1>5, <1>6, <1>7
  <2>2. completed[b][Len(old) + 1] = noted.requests[t]
    BY <1>3, <1>5, <1>7
  <2> QED
    BY <2>1, <2>2 DEF b, completed
<1>8. CASE CcKnows(r, noted)
  <2>1. PICK k \in 1 .. Len(old) : old[k] = noted.requests[t]
    BY <1>4, <1>8
  <2>2. k \in 1 .. Len(Append(old, requests[t])) /\ Append(old, requests[t])[k] = noted.requests[t]
    BY <1>5, <1>6, <2>1
  <2>3. k \in 1 .. Len(completed[b]) /\ completed[b][k] = noted.requests[t]
    BY <1>3, <2>1, <2>2
  <2> QED
    BY <2>3 DEF b, completed
<1> QED
  BY <1>7, <1>8

LEMMA CcEndsKeeps ==
    ASSUME CcInv, NEW p \in CcProcesses, NEW complete \in BOOLEAN, CcBundleEnds(p, complete)
    PROVE  CcInv'
<1> DEFINE r == process[p]
           zeros == NoRequests
           completed == IF complete
                     THEN [b \in ToSet(CcConditions) \X CcTasks |->
                              IF b[1] = Row(p)[1] THEN Append(r.completed[b], r.observed[b[2]])
                              ELSE r.completed[b]]
                     ELSE r.completed
           after == [r EXCEPT !.row = @ + 1, !.observed = zeros, !.completed = completed,
                              !.bundles = Append(@, complete)]
           noted == Recorded(p, complete)
           written == [directory EXCEPT !.records = Append(@, noted)]
<1>1. /\ r.pc = "bundle" /\ UNCHANGED <<probe, probeFile>> /\ process \in [CcProcesses -> CcProcessRows] /\ r \in CcProcessRows
      /\ directory \in CcDirectories
  BY DEF CcBundleEnds, CcInv, CcTypeOK
<1>2. CASE ~SameCount(p)
  <2>1. Raise(p)
    BY <1>2 DEF CcBundleEnds
  <2> QED
    BY <1>1, <2>1, CcRaiseKeeps
<1>3. CASE SameCount(p)
  <2>1. \/ /\ complete
           /\ process' = [process EXCEPT ![p] = [after EXCEPT !.pc = IF r.row = Len(CycleRows) THEN "contrasts" ELSE "bundle"]]
           /\ directory' = written
        \/ ~complete /\ process' = [process EXCEPT ![p] = [after EXCEPT !.pc = "ended"]] /\ Fails(p, written)
        \/ process' = [process EXCEPT ![p] = [after EXCEPT !.pc = "ended"]] /\ Fails(p, directory)
    BY <1>3 DEF CcBundleEnds
  <2>2. /\ written \in CcDirectories /\ written.owner = p /\ CcFilesAgree(written)
        /\ written.cycle = "none" /\ written.failure = -1 /\ noted \in CcRecords
        /\ written.records = Append(directory.records, noted)
    BY <1>1, <1>3, CcOneMore
  <2>3. /\ directory.owner = p /\ CcWrites(r, directory) /\ CcFilesAgree(directory) /\ Writing(r)
        /\ directory.records \in Seq(CcRecords)
    BY <1>1 DEF CcInv, CcStory, Writing, CcDirectories
  <2>4. completed \in [CcKeys -> Seq(Nat)] /\ zeros \in [CcTasks -> Nat]
    <3>1. r.completed \in [CcKeys -> Seq(Nat)] /\ r.observed \in [CcTasks -> Nat]
      BY <1>1 DEF CcProcessRows
    <3>2. ASSUME NEW b \in CcKeys PROVE Append(r.completed[b], r.observed[b[2]]) \in Seq(Nat)
      <4>1. b[2] \in CcTasks
        BY DEF CcKeys
      <4> QED
        BY <3>1, <4>1
    <3>3. zeros \in [CcTasks -> Nat]
      BY DEF NoRequests
    <3> HIDE DEF r, zeros
    <3> QED
      BY <3>1, <3>2, <3>3 DEF CcKeys
  <2>5. noted.row = Row(p) /\ noted.requests = r.observed /\ noted.valid = complete
    BY DEF Recorded
  <2> DEFINE next == r.row + 1
             list == Append(r.bundles, complete)
  <2>6. /\ next \in Nat /\ list \in Seq(BOOLEAN) /\ Len(list) = Len(r.bundles) + 1 /\ Len(r.bundles) \in Nat
        /\ after = [r EXCEPT !.row = next, !.observed = zeros, !.completed = completed, !.bundles = list]
    BY <1>1 DEF CcProcessRows
  <2>7. complete => completed = [b \in CcKeys |->
                          IF b[1] = Row(p)[1] THEN Append(r.completed[b], r.observed[b[2]]) ELSE r.completed[b]]
    BY DEF CcKeys
  <2> HIDE DEF completed, zeros, noted, written, after, next, list
  <2>8. ASSUME NEW now \in {"bundle", "contrasts", "ended"}, process' = [process EXCEPT ![p] = [after EXCEPT !.pc = now]]
        PROVE  /\ process' \in [CcProcesses -> CcProcessRows] /\ \A q \in CcProcesses : q # p => process'[q] = process[q]
               /\ process'[p].pc = now /\ process'[p].row = next /\ process'[p].bundles = list
               /\ process'[p].completed = completed
    <3>1. /\ [after EXCEPT !.pc = now] \in CcProcessRows
          /\ [after EXCEPT !.pc = now].pc = now /\ [after EXCEPT !.pc = now].row = next
          /\ [after EXCEPT !.pc = now].bundles = list /\ [after EXCEPT !.pc = now].completed = completed
      BY <1>1, <2>4, <2>6 DEF CcProcessRows
    <3> HIDE DEF r
    <3> QED
      BY <1>1, <2>8, <3>1
  <2>9. Len(list) = Len(directory.records) + 1 /\ Len(list) \in Nat /\ Len(written.records) = Len(directory.records) + 1
        /\ Len(directory.records) \in Nat
    <3>1. Len(directory.records) = Len(r.bundles) /\ Len(list) = Len(r.bundles) + 1 /\ Len(r.bundles) \in Nat
      BY <2>3, <2>6 DEF CcWrites
    <3>2. Len(Append(directory.records, noted)) = Len(directory.records) + 1
      BY <2>2, <2>3
    <3> QED
      BY <2>2, <3>1, <3>2
  <2>10. CASE /\ complete
              /\ process' = [process EXCEPT ![p] = [after EXCEPT !.pc = IF r.row = Len(CycleRows) THEN "contrasts" ELSE "bundle"]]
              /\ directory' = written
    <3> DEFINE now == IF r.row = Len(CycleRows) THEN "contrasts" ELSE "bundle"
    <3>1. now \in {"bundle", "contrasts", "ended"} /\ process' = [process EXCEPT ![p] = [after EXCEPT !.pc = now]]
      BY <2>10
    <3>2. (now = "contrasts" => r.row = Len(CycleRows)) /\ (now = "bundle" => r.row # Len(CycleRows))
      OBVIOUS
    <3> HIDE DEF now
    <3>3. /\ process' \in [CcProcesses -> CcProcessRows] /\ \A q \in CcProcesses : q # p => process'[q] = process[q]
          /\ process'[p].pc = now /\ process'[p].row = next /\ process'[p].bundles = list
          /\ process'[p].completed = completed
      BY <2>8, <3>1
    <3>4. ASSUME NEW i \in 1 .. Len(written.records)
          PROVE  written.records[i].valid /\ CcKnows(process'[p], written.records[i])
      <4>1. /\ written.records[i] \in CcRecords
            /\ \/ written.records[i] = noted
               \/ i \in 1 .. Len(directory.records) /\ written.records[i] = directory.records[i]
        BY <2>2, <2>3, <2>9
      <4>2. /\ written.records[i].valid
            /\ \/ CcKnows(r, written.records[i])
               \/ written.records[i].row[1] = Row(p)[1] /\ written.records[i].requests = r.observed
        BY <2>3, <2>5, <2>10, <4>1 DEF CcWrites
      <4>3. r.observed \in [CcTasks -> Nat]
        BY <1>1 DEF CcProcessRows
      <4>5. completed = [b \in CcKeys |->
                             IF b[1] = Row(p)[1] THEN Append(r.completed[b], r.observed[b[2]]) ELSE r.completed[b]]
        BY <2>7, <2>10
      <4>6. r \in CcProcessRows /\ written.records[i] \in CcRecords /\ process'[p].completed = completed
        BY <1>1, <3>3, <4>1
      <4> DEFINE requests == r.observed
                 one == written.records[i]
      <4> HIDE DEF r, requests, one
      <4>7. CcKnows(r, one) \/ (one.row[1] = Row(p)[1] /\ one.requests = requests)
        BY <4>2 DEF requests, one
      <4>4. CcKnows(process'[p], one)
        <5> DEFINE c == Row(p)[1]
        <5> HIDE DEF c
        <5>1. CcAppends(r, c, requests, process'[p])
          BY <4>5, <4>6 DEF requests, c, CcAppends
        <5>2. requests \in [CcTasks -> Nat] /\ one \in CcRecords
          BY <4>3, <4>6 DEF requests, one
        <5>3. CcKnows(r, one) \/ (one.row[1] = c /\ one.requests = requests)
          BY <4>7 DEF c
        <5> QED
          BY <4>6, <5>1, <5>2, <5>3, CcKnowsMore
      <4> QED
        BY <4>2, <4>4 DEF one
    <3>5. CcWrites(process'[p], directory')
      <4>1. r.row \in Nat /\ r.row <= Len(CycleRows) /\ Len(directory.records) = r.row - 1 /\ Len(CycleRows) \in Nat
        BY <1>1, <2>3, CcPlan DEF CcWrites, CcProcessRows
      <4>2. next = r.row + 1 /\ Len(written.records) = Len(list) /\ Len(written.records) = next - 1
        BY <2>9, <4>1 DEF next
      <4>3. (now = "bundle" => next <= Len(CycleRows)) /\ (now = "contrasts" => next = Len(CycleRows) + 1)
        BY <3>2, <4>1, <4>2
      <4> HIDE DEF r
      <4> QED
        BY <2>2, <2>10, <3>3, <3>4, <4>2, <4>3 DEF CcWrites
    <3> QED
      BY <1>1, <2>2, <2>3, <2>10, <3>1, <3>3, <3>5, CcWriterKeeps
  <2>11. CASE process' = [process EXCEPT ![p] = [after EXCEPT !.pc = "ended"]] /\ (Fails(p, written) \/ Fails(p, directory))
    <3>1. /\ process' \in [CcProcesses -> CcProcessRows] /\ \A q \in CcProcesses : q # p => process'[q] = process[q]
          /\ process'[p].pc = "ended" /\ process'[p].bundles = list
      BY <2>8, <2>11
    <3>2. directory' \in CcDirectories /\ directory'.owner = p /\ CcFilesAgree(directory')
      BY <1>1, <2>2, <2>3, <2>9, <2>11, <3>1, CcFailsAgree
    <3> QED
      BY <1>1, <2>3, <3>1, <3>2, CcWriterKeeps DEF Writing
  <2> QED
    BY <2>1, <2>10, <2>11
<1> QED
  BY <1>2, <1>3

LEMMA CcInitHolds == CcInit => CcInv
<1> SUFFICES ASSUME CcInit PROVE CcInv
  OBVIOUS
<1> DEFINE no == FALSE
           one == 1
           nobody == "none"
           unset == -1
           row == [pc |-> "start", row |-> one, observed |-> NoRequests, refused |-> no,
                   completed |-> [b \in CcKeys |-> <<>>], bundles |-> <<>>]
           empty == [owner |-> nobody, records |-> <<>>, cycle |-> nobody, failure |-> unset]
<1>1. /\ process = [p \in CcProcesses |-> row] /\ directory = empty
      /\ probe = [p \in CcProcesses |-> [state |-> "none"]] /\ probeFile = [owner |-> "none", decision |-> "none"]
  BY DEF CcInit, Nothing, CcKeys
<1>2. no \in BOOLEAN /\ one \in Nat /\ one = 1 /\ nobody = "none" /\ unset = -1
  OBVIOUS
<1>3. NoRequests \in [CcTasks -> Nat] /\ [b \in CcKeys |-> <<>>] \in [CcKeys -> Seq(Nat)] /\ <<>> \in Seq(BOOLEAN)
  BY DEF NoRequests
<1>4. empty \in CcDirectories /\ empty.owner = "none" /\ empty.records = <<>> /\ empty.cycle = "none" /\ empty.failure = -1
  BY DEF CcDirectories
<1> HIDE DEF no, one, nobody, unset, empty
<1>5. row \in CcProcessRows /\ row.pc = "start" /\ CcFirst(row)
  BY <1>2, <1>3 DEF CcProcessRows, CcFirst
<1> HIDE DEF row
<1>6. CcTypeOK
  BY <1>1, <1>4, <1>5 DEF CcTypeOK
<1>7. CcFilesAgree(directory)
  <2>1. Len(directory.records) = 0
    BY <1>1, <1>4
  <2> QED
    BY <1>1, <1>4, <2>1, CcPlan DEF CcFilesAgree, CcRecordsAgree
<1>8. CcStory
  BY <1>1, <1>4, <1>5, <1>7 DEF CcStory, Writing
<1>9. CpSound
  BY <1>1 DEF CpSound
<1> QED
  BY <1>6, <1>8, <1>9 DEF CcInv

LEMMA CcInvTells == CcInv => CcOneStory
<1> SUFFICES ASSUME CcInv PROVE CcOneStory
  OBVIOUS
<1> DEFINE records == directory.records
           rows == [i \in DOMAIN records |-> records[i].row]
           N == Len(records)
<1>1. /\ records \in Seq(CcRecords) /\ N \in Nat /\ DOMAIN records = 1 .. N /\ CcFilesAgree(directory)
  BY DEF CcInv, CcTypeOK, CcStory, CcDirectories
<1>2. CcRecordsAgree(records)
  BY <1>1 DEF CcFilesAgree
<1>3. IsPrefix(rows, CycleRows)
  <2>1. N <= Len(CycleRows) /\ \A i \in 1 .. N : records[i].row = CycleRows[i]
    BY <1>2 DEF CcRecordsAgree
  <2>2. rows = [i \in 1 .. N |-> CycleRows[i]] /\ Len(rows) = N /\ DOMAIN rows = 1 .. N
    BY <1>1, <2>1
  <2>3. SubSeq(CycleRows, 1, N) = [i \in 1 .. N |-> CycleRows[i]]
    BY <1>1, <2>1, CcPlan
  <2>4. SubSeq(rows, 1, N) = [i \in 1 .. N |-> CycleRows[i]]
    BY <1>1, <2>2
  <2> HIDE DEF rows, N
  <2> QED
    BY <2>1, <2>2, <2>3, <2>4 DEF IsPrefix
<1>4. /\ \A i \in DOMAIN records : i < Len(records) => records[i].valid
      /\ \A i, j \in DOMAIN records : records[i].row[1] = records[j].row[1] => records[i].requests = records[j].requests
  BY <1>1, <1>2 DEF CcRecordsAgree
<1>5. /\ directory.cycle # "none" => Len(records) = Len(CycleRows) /\ \A i \in DOMAIN records : records[i].valid
      /\ directory.failure # -1 => directory.failure - Len(records) \in {0, 1}
  BY <1>1 DEF CcFilesAgree
<1>6. \A p \in CcProcesses : process[p].pc \in {"bundle", "contrasts"} => directory.owner = p
  BY DEF CcInv, CcStory, Writing
<1>7. probeFile.decision # "none" => \E p \in CcProcesses : probeFile.owner = p /\ probe[p].state = "done"
  BY DEF CcInv, CpSound
<1> QED
  BY <1>3, <1>4, <1>5, <1>6, <1>7 DEF CcOneStory

LEMMA CcStep == CcInv /\ [CcNext]_ccVars => CcInv'
<1> SUFFICES ASSUME CcInv, [CcNext]_ccVars PROVE CcInv'
  OBVIOUS
<1>1. CASE UNCHANGED ccVars
  BY <1>1 DEF ccVars, CcInv, CcTypeOK, CcStory, CpSound
<1>2. CASE CcNext
  BY <1>2, CpReserveKeeps, CpProbeKeeps, CcMakeKeeps, CcRaisesKeeps, CcSummaryKeeps, CcDiesKeeps, CcAdmitKeeps,
     CcObserveKeeps, CcEndsKeeps DEF CcNext
<1> QED
  BY <1>1, <1>2

\* For any processes, conditions, tasks and requests, whichever process is
\* first and wherever one fails or dies: the files of a cycle are a prefix of
\* the plan made by one process, bundles of a condition sent the same number of
\* requests of each task, a summary is of all bundles, and a failure counts the
\* bundles on disk or one more (execute_cycle, PrefixTracker.finish_bundle).
THEOREM CcAlwaysOneStory == CcSpec => []CcOneStory
<1>1. CcSpec => []CcInv
  BY CcInitHolds, CcStep, PTL DEF CcSpec
<1> QED
  BY <1>1, CcInvTells, PTL

(***************************************************************************)
(* CacheStudy.                                                             *)
(***************************************************************************)

CsFirst(n) == SubSeq(cycles, 1, n)
CsStableAtFirst == StabilitySeries(CsFirst(CsTarget), CsTarget \div 2)
CsConclusion(n, q) == [from |-> n, quality |-> q, verdict |-> CacheVerdict(CsFirst(n), q)]

\* A conclusion is from all cycles there were at one of the two boundaries: the
\* first only if it was stable there, the second only if it was not.
CsRests(e) ==
    \/ /\ CsTarget <= Len(cycles) /\ e \in {CsConclusion(CsTarget, q) : q \in BOOLEAN}
       /\ CohortValid(CsFirst(CsTarget)) /\ CsStableAtFirst
    \/ /\ 2 * CsTarget <= Len(cycles) /\ e \in {CsConclusion(2 * CsTarget, q) : q \in BOOLEAN}
       /\ CohortValid(CsFirst(2 * CsTarget)) /\ ~CsStableAtFirst

CsInv ==
    /\ \E S : cycles \in Seq(S)
    /\ \A e \in concluded : CsRests(e) /\ e.verdict \notin Open
    /\ \A i \in 1 .. Len(cycles) : ~cycles[i].silent

LEMMA CsCounts == CsTarget \in Nat /\ CsTarget >= 1 /\ 2 * CsTarget \in Nat /\ CsTarget < 2 * CsTarget
  BY CsAssumption

\* The first cycles of a list stay the first when one is added.
LEMMA CsFirstStay ==
    ASSUME NEW S, NEW s \in Seq(S), NEW x, NEW n \in Nat, n <= Len(s)
    PROVE  SubSeq(Append(s, x), 1, n) = SubSeq(s, 1, n)
<1> DEFINE more == Append(s, x)
<1>1. Len(s) \in Nat /\ s \in Seq(S \cup {x}) /\ x \in S \cup {x}
  OBVIOUS
<1>2. more \in Seq(S \cup {x}) /\ Len(more) = Len(s) + 1 /\ \A i \in 1 .. Len(s) : more[i] = s[i]
  BY <1>1
<1> HIDE DEF more
<1>3. SubSeq(more, 1, n) = [i \in 1 .. n |-> more[i]] /\ SubSeq(s, 1, n) = [i \in 1 .. n |-> s[i]]
  BY <1>1, <1>2
<1>4. \A i \in 1 .. n : more[i] = s[i]
  BY <1>1, <1>2
<1> QED
  BY <1>3, <1>4 DEF more

LEMMA CsFirstOfFirst ==
    ASSUME NEW S, NEW s \in Seq(S), NEW n \in Nat, NEW m \in Nat, m <= n, n <= Len(s)
    PROVE  /\ SubSeq(SubSeq(s, 1, n), 1, m) = SubSeq(s, 1, m) /\ Len(SubSeq(s, 1, n)) = n
           /\ \A i \in 1 .. n : SubSeq(s, 1, n)[i] = s[i]
<1> DEFINE t == SubSeq(s, 1, n)
<1>1. t = [i \in 1 .. n |-> s[i]] /\ SubSeq(s, 1, m) = [i \in 1 .. m |-> s[i]] /\ Len(t) = n
  OBVIOUS
<1>2. t \in Seq(S)
  OBVIOUS
<1> HIDE DEF t
<1>3. SubSeq(t, 1, m) = [i \in 1 .. m |-> t[i]]
  BY <1>1, <1>2
<1>4. \A i \in 1 .. n : t[i] = s[i]
  BY <1>1
<1> QED
  BY <1>1, <1>3, <1>4 DEF t

\* Without usage in an answer, a bundle has no metrics.
LEMMA CsNoneSilent ==
    ASSUME NEW answers, BundleMetrics(answers).valid
    PROVE  \A a \in ToSet(answers) : a.http = 200 => a.usage.cached # NoCount
<1> DEFINE successful == {i \in DOMAIN answers : answers[i].http = 200}
           no == FALSE
<1>1. UsageTotals(answers, successful).valid
  <2>1. ~[valid |-> no].valid
    OBVIOUS
  <2> QED
    BY <2>1 DEF BundleMetrics
<1>2. \A i \in successful : UsageStatus(answers[i]) = "measured"
  BY <1>1 DEF UsageTotals
<1>3. \A i \in DOMAIN answers : answers[i].http = 200 => answers[i].usage.cached # NoCount
  BY <1>2 DEF UsageStatus
<1> QED
  BY <1>3 DEF ToSet

LEMMA CsRunKeeps ==
    ASSUME CsInv, NEW number, NEW cold, NEW warm, CsRunCycle(number, cold, warm)
    PROVE  CsInv'
<1> DEFINE silent == \E a \in ToSet(cold) \cup ToSet(warm) : a.http = 200 /\ a.usage.cached = NoCount
           row == [number |-> number, setup |-> setup,
                   contrasts |-> Contrasts(BundleMetrics(cold), BundleMetrics(warm)), silent |-> silent]
<1>1. BundleMetrics(cold).valid /\ BundleMetrics(warm).valid /\ cycles' = Append(cycles, row) /\ concluded' = concluded
  BY DEF CsRunCycle
<1>2. ~silent
  BY <1>1, CsNoneSilent
<1> HIDE DEF silent
<1>3. ~row.silent
  BY <1>2
<1> HIDE DEF row
<1>4. PICK S : cycles \in Seq(S)
  BY DEF CsInv
<1>5. /\ cycles' \in Seq(S \cup {row}) /\ Len(cycles') = Len(cycles) + 1 /\ Len(cycles) \in Nat
      /\ cycles'[Len(cycles) + 1] = row /\ \A i \in 1 .. Len(cycles) : cycles'[i] = cycles[i]
  <2>1. cycles \in Seq(S \cup {row}) /\ row \in S \cup {row}
    BY <1>4
  <2> QED
    BY <1>1, <1>4, <2>1
<1>6. \A i \in 1 .. Len(cycles') : ~cycles'[i].silent
  BY <1>3, <1>5 DEF CsInv
<1>7. \A n \in Nat : n <= Len(cycles) => CsFirst(n)' = CsFirst(n)
  BY <1>1, <1>4, CsFirstStay DEF CsFirst
<1>8. ASSUME NEW e \in concluded PROVE CsRests(e)'
  <2>1. CsRests(e)
    BY DEF CsInv
  <2>2. CsTarget <= Len(cycles) => CsFirst(CsTarget)' = CsFirst(CsTarget) /\ CsStableAtFirst' = CsStableAtFirst
                                   /\ \A q : CsConclusion(CsTarget, q)' = CsConclusion(CsTarget, q)
    BY <1>7, CsCounts DEF CsStableAtFirst, CsConclusion
  <2>3. 2 * CsTarget <= Len(cycles) => CsFirst(2 * CsTarget)' = CsFirst(2 * CsTarget)
                                   /\ \A q : CsConclusion(2 * CsTarget, q)' = CsConclusion(2 * CsTarget, q)
    BY <1>7, CsCounts DEF CsConclusion
  <2>4. CsTarget <= Len(cycles) => CsTarget <= Len(cycles')
    BY <1>5, CsCounts
  <2>5. 2 * CsTarget <= Len(cycles) => 2 * CsTarget <= Len(cycles') /\ CsTarget <= Len(cycles)
    BY <1>5, CsCounts
  <2> QED
    BY <2>1, <2>2, <2>3, <2>4, <2>5 DEF CsRests
<1> QED
  BY <1>1, <1>5, <1>6, <1>8 DEF CsInv

LEMMA CsEvaluateKeeps == ASSUME CsInv, NEW q \in BOOLEAN, CsEvaluate(q) PROVE CsInv'
<1> DEFINE n == Len(cycles)
           verdict == CacheVerdict(cycles, q)
<1>1. verdict \notin Open /\ concluded' = concluded \cup {[from |-> n, quality |-> q, verdict |-> verdict]} /\ cycles' = cycles
  BY DEF CsEvaluate
<1>2. PICK S : cycles \in Seq(S)
  BY DEF CsInv
<1>3. n \in Nat /\ CsFirst(n) = cycles
  BY <1>2 DEF CsFirst
<1>4. CacheStability(cycles) \notin Open
  <2>1. CacheStability(cycles) # "stable" => verdict = CacheStability(cycles)
    BY DEF CacheVerdict
  <2> QED
    BY <1>1, <2>1 DEF Open
<1>5. /\ CohortValid(cycles)
      /\ \/ n = CsTarget /\ StabilitySeries(cycles, n \div 2)
         \/ n = 2 * CsTarget /\ RecordedUnstable(cycles)
  BY <1>3, <1>4, CsCounts DEF CacheStability, Open
<1>6. CsRests([from |-> n, quality |-> q, verdict |-> verdict])
  <2>1. CsConclusion(n, q) = [from |-> n, quality |-> q, verdict |-> verdict]
    BY <1>3 DEF CsConclusion
  <2>2. CASE n = CsTarget /\ StabilitySeries(cycles, n \div 2)
    <3>1. CsFirst(CsTarget) = cycles /\ CsConclusion(CsTarget, q) = [from |-> n, quality |-> q, verdict |-> verdict]
      BY <1>3, <2>1, <2>2
    <3>2. StabilitySeries(cycles, CsTarget \div 2) /\ CsTarget <= Len(cycles)
      BY <1>3, <2>2, CsCounts
    <3>3. CsStableAtFirst
      BY <3>1, <3>2 DEF CsStableAtFirst
    <3> HIDE DEF n, verdict
    <3> QED
      BY <1>5, <3>1, <3>2, <3>3 DEF CsRests
  <2>3. CASE n = 2 * CsTarget /\ RecordedUnstable(cycles)
    <3>1. ~CsStableAtFirst
      BY <2>3 DEF CsStableAtFirst, RecordedUnstable, CsFirst
    <3>2. CsFirst(2 * CsTarget) = cycles /\ CsConclusion(2 * CsTarget, q) = [from |-> n, quality |-> q, verdict |-> verdict]
      BY <1>3, <2>1, <2>3
    <3>3. 2 * CsTarget <= Len(cycles)
      BY <1>3, <2>3, CsCounts
    <3> HIDE DEF n, verdict
    <3> QED
      BY <1>5, <3>1, <3>2, <3>3 DEF CsRests
  <2> QED
    BY <1>5, <2>2, <2>3
<1>7. \A e : CsRests(e)' = CsRests(e)
  BY <1>1 DEF CsRests, CsFirst, CsStableAtFirst, CsConclusion
<1> HIDE DEF n, verdict
<1> QED
  BY <1>1, <1>6, <1>7 DEF CsInv

LEMMA CsInvConcludes == CsInv => CsOneConclusion
<1> SUFFICES ASSUME CsInv PROVE CsOneConclusion
  OBVIOUS
<1>1. PICK S : cycles \in Seq(S)
  BY DEF CsInv
<1>2. /\ \A a, b \in concluded : a.from = b.from /\ (a.quality = b.quality => a.verdict = b.verdict)
      /\ \A a, b \in concluded : a.verdict = b.verdict \/ "quality_inconclusive" \in {a.verdict, b.verdict}
      /\ \A a \in concluded : a.verdict \in {"quality_inconclusive", "same_condition_width_excess"} \/ a.quality
  <2>1. \A a \in concluded : CsRests(a)
    BY DEF CsInv
  <2>2. PICK n \in {CsTarget, 2 * CsTarget} : \A a \in concluded : a \in {CsConclusion(n, q) : q \in BOOLEAN}
    <3>1. CASE CsStableAtFirst
      BY <2>1, <3>1 DEF CsRests
    <3>2. CASE ~CsStableAtFirst
      BY <2>1, <3>2 DEF CsRests
    <3> QED
      BY <3>1, <3>2
  <2>3. \A q : CsConclusion(n, q).from = n /\ CsConclusion(n, q).quality = q
               /\ CsConclusion(n, q).verdict = CacheVerdict(CsFirst(n), q)
    BY DEF CsConclusion
  <2>4. /\ CacheVerdict(CsFirst(n), FALSE) \in {CacheVerdict(CsFirst(n), TRUE), "quality_inconclusive"}
        /\ CacheStability(CsFirst(n)) # "stable" \/ CacheVerdict(CsFirst(n), FALSE) = "quality_inconclusive"
        /\ CacheStability(CsFirst(n)) # "stable" => CacheVerdict(CsFirst(n), FALSE) = CacheStability(CsFirst(n))
    BY DEF CacheVerdict
  <2>5. \A a \in concluded : a.quality \in BOOLEAN /\ a.from = n /\ a.verdict = CacheVerdict(CsFirst(n), a.quality)
    BY <2>2, <2>3
  <2>6. ASSUME NEW a \in concluded, ~a.quality
        PROVE  a.verdict \in {"quality_inconclusive", "same_condition_width_excess"}
    <3>1. a.verdict \notin Open
      BY DEF CsInv
    <3>2. CacheStability(CsFirst(n)) \in Open \cup {"stable", "same_condition_width_excess"}
      BY DEF CacheStability, Open
    <3> QED
      BY <2>4, <2>5, <2>6, <3>1, <3>2
  <2> QED
    BY <2>4, <2>5, <2>6
<1>3. ASSUME NEW a \in concluded, NEW i \in 1 .. a.from
      PROVE  cycles[i].number = i /\ cycles[i].setup = cycles[1].setup
  <2>1. PICK n \in Nat : n <= Len(cycles) /\ a.from = n /\ CohortValid(CsFirst(n)) /\ n >= 1
    <3>1. CsRests(a)
      BY DEF CsInv
    <3>2. \A q : CsConclusion(CsTarget, q).from = CsTarget /\ CsConclusion(2 * CsTarget, q).from = 2 * CsTarget
      BY DEF CsConclusion
    <3>3. CASE CsTarget <= Len(cycles) /\ a \in {CsConclusion(CsTarget, q) : q \in BOOLEAN} /\ CohortValid(CsFirst(CsTarget))
      BY <3>2, <3>3, CsCounts
    <3>4. CASE 2 * CsTarget <= Len(cycles) /\ a \in {CsConclusion(2 * CsTarget, q) : q \in BOOLEAN} /\ CohortValid(CsFirst(2 * CsTarget))
      <4>1. 2 * CsTarget >= 1
        BY CsCounts
      <4> QED
        BY <3>2, <3>4, <4>1, CsCounts
    <3> QED
      BY <3>1, <3>3, <3>4 DEF CsRests
  <2>2. Len(CsFirst(n)) = n /\ \A k \in 1 .. n : CsFirst(n)[k] = cycles[k]
    BY <1>1, <2>1, CsFirstOfFirst DEF CsFirst
  <2>3. CsFirst(n) \in Seq(S)
    BY <1>1, <2>1 DEF CsFirst
  <2>4. i \in DOMAIN CsFirst(n) /\ CsFirst(n)[i] = cycles[i] /\ CsFirst(n)[1] = cycles[1]
    BY <1>3, <2>1, <2>2, <2>3
  <2> QED
    BY <2>1, <2>4 DEF CohortValid
<1>4. \A i \in DOMAIN cycles : ~cycles[i].silent
  BY <1>1 DEF CsInv
<1> QED
  BY <1>2, <1>3, <1>4 DEF CsOneConclusion

LEMMA CsStep == CsInv /\ [CsNext]_csVars => CsInv'
<1> SUFFICES ASSUME CsInv, [CsNext]_csVars PROVE CsInv'
  OBVIOUS
<1>1. CASE UNCHANGED csVars \/ CsSetUpAgain
  <2>1. cycles' = cycles /\ concluded' = concluded
    BY <1>1 DEF csVars, CsSetUpAgain
  <2> QED
    BY <2>1 DEF CsInv, CsRests, CsFirst, CsStableAtFirst, CsConclusion
<1>2. CASE CsNext
  BY <1>1, <1>2, CsRunKeeps, CsEvaluateKeeps DEF CsNext
<1> QED
  BY <1>1, <1>2

\* For any number of cycles at the boundaries, any answers and any order of
\* running, re-approving and asking: a study's conclusions are from one number of
\* cycles, in order and of one setup, and differ only by whether quality was
\* conclusive; no answer without the provider's usage is in a cycle
\* (cache_stability, cache_verdict, provider_usage_record).
THEOREM CsAlwaysOneConclusion == CsSpec => []CsOneConclusion
<1>1. CsInit => CsInv
  BY DEF CsInit, CsInv
<1>2. CsSpec => []CsInv
  BY <1>1, CsStep, PTL DEF CsSpec
<1> QED
  BY <1>2, CsInvConcludes, PTL
=============================================================================
