--------------------- MODULE PolicyEnforcement_proofs ---------------------
(***************************************************************************)
(* Proofs about PolicyEnforcement, for any number of actions, passes,      *)
(* edits, facts, versions and days, and any amount and cap.                *)
(***************************************************************************)
EXTENDS PolicyEnforcement, FiniteSetTheorems, TLAPS

-----------------------------------------------------------------------------
(* Type correctness *)

\* A pass that began knows its action, and has a status only when it is done.
PassesBegan ==
    \A p \in Passes : /\ pass[p].pc # "idle" => pass[p].digest \in Digest
                      /\ pass[p].pc # "done" => pass[p].status = "none"

TypeInv == TypeOK /\ PassesBegan

PassesTyped == pass \in [Passes -> Pass] /\ PassesBegan

\* The steps of the editors and of the world touch no pass but for its mark of
\* being undisturbed, and record nothing.
WorldStep ==
    \/ \E e \in Edits : BeginEdit(e) \/ \E s \in Statuses : ApplyEdit(e, s)
    \/ \E a \in Actions, f \in Facts : ChangeFacts(a, f)
    \/ NextDay

PassStep(p) ==
    \/ \E a \in Actions : BeginPass(p, a)
    \/ ReadFacts(p) \/ ReadPolicy(p) \/ ReadScope(p) \/ ReadRefs(p) \/ LookUp(p)
    \/ ReadTotal(p) \/ Record(p) \/ AbortPass(p)

LEMMA NextSplits == Next <=> WorldStep \/ \E p \in Passes : PassStep(p)
BY DEF Next, WorldStep, PassStep

PassesKept ==
    \A p \in Passes : /\ pass'[p].pc = pass[p].pc
                      /\ pass'[p].digest = pass[p].digest
                      /\ pass'[p].at = pass[p].at
                      /\ pass'[p].day = pass[p].day
                      /\ pass'[p].total = pass[p].total
                      /\ pass'[p].status = pass[p].status
                      /\ pass'[p].after = pass[p].after
                      /\ pass'[p].blind = pass[p].blind

LEMMA DisturbedPasses ==
    ASSUME pass \in [Passes -> Pass], Disturb \/ pass' = pass
    PROVE  pass' \in [Passes -> Pass] /\ PassesKept
<1>1. CASE Disturb
  <2>1. \A p \in Passes : pass[p] \in Pass
    OBVIOUS
  <2>2. \A p \in Passes : pass'[p] = [pass[p] EXCEPT !.clean = FALSE]
    BY <1>1 DEF Disturb
  <2>3. ASSUME NEW x \in Pass PROVE [x EXCEPT !.clean = FALSE] \in Pass
    BY DEF Pass
  <2>4. \A p \in Passes : pass'[p] \in Pass
    BY <2>1, <2>2, <2>3
  <2>5. PassesKept
    <3>1. ASSUME NEW x \in Pass, NEW y, y = [x EXCEPT !.clean = FALSE]
          PROVE  /\ y.pc = x.pc /\ y.digest = x.digest /\ y.at = x.at
                 /\ y.day = x.day /\ y.total = x.total /\ y.status = x.status
                 /\ y.after = x.after /\ y.blind = x.blind
      BY <3>1 DEF Pass
    <3>2. ASSUME NEW p \in Passes
          PROVE  /\ pass'[p].pc = pass[p].pc /\ pass'[p].digest = pass[p].digest
                 /\ pass'[p].at = pass[p].at /\ pass'[p].day = pass[p].day
                 /\ pass'[p].total = pass[p].total /\ pass'[p].status = pass[p].status
                 /\ pass'[p].after = pass[p].after /\ pass'[p].blind = pass[p].blind
      <4>1. pass[p] \in Pass /\ pass'[p] = [pass[p] EXCEPT !.clean = FALSE]
        BY <2>1, <2>2
      <4> QED BY ONLY <3>1, <4>1
    <3> QED BY ONLY <3>2 DEF PassesKept
  <2>6. pass' = [p \in Passes |-> pass'[p]]
    BY <1>1 DEF Disturb
  <2>7. pass' \in [Passes -> Pass]
    BY ONLY <2>4, <2>6
  <2> QED BY <2>5, <2>7
<1>2. CASE pass' = pass
  BY <1>2 DEF PassesKept
<1> QED BY <1>1, <1>2

LEMMA WorldFrame ==
    ASSUME WorldStep
    PROVE  /\ UNCHANGED <<rows, clock>>
           /\ Disturb \/ UNCHANGED <<pass, settled>>
<1>1. ASSUME NEW e \in Edits, BeginEdit(e)
      PROVE  UNCHANGED <<rows, clock, pass, settled>>
  BY <1>1 DEF BeginEdit
<1>2. ASSUME NEW e \in Edits, NEW s \in Statuses, ApplyEdit(e, s)
      PROVE  /\ UNCHANGED <<rows, clock>>
             /\ Disturb \/ UNCHANGED <<pass, settled>>
  BY <1>2 DEF ApplyEdit
<1>3. ASSUME NEW a \in Actions, NEW f \in Facts, ChangeFacts(a, f)
      PROVE  UNCHANGED <<rows, clock>> /\ Disturb
  BY <1>3 DEF ChangeFacts
<1>4. ASSUME NextDay
      PROVE  UNCHANGED <<rows, clock>> /\ Disturb
  BY <1>4 DEF NextDay
<1> QED BY <1>1, <1>2, <1>3, <1>4 DEF WorldStep

\* What a step of a pass does to the world: nothing.
LEMMA PassFrame ==
    ASSUME NEW p \in Passes, PassStep(p)
    PROVE  UNCHANGED world
<1>1. ASSUME NEW a \in Actions, BeginPass(p, a) PROVE UNCHANGED world
  BY <1>1 DEF BeginPass
<1>2. CASE ReadFacts(p)  BY <1>2 DEF ReadFacts
<1>3. CASE ReadPolicy(p) BY <1>3 DEF ReadPolicy
<1>4. CASE LookUp(p)     BY <1>4 DEF LookUp
<1>5. CASE ReadTotal(p)  BY <1>5 DEF ReadTotal
<1>6. CASE Record(p)     BY <1>6 DEF Record
<1>7. CASE AbortPass(p)  BY <1>7 DEF AbortPass
<1>8. CASE ReadScope(p)  BY <1>8 DEF ReadScope
<1>9. CASE ReadRefs(p)   BY <1>9 DEF ReadRefs
<1> QED BY <1>1, <1>2, <1>3, <1>4, <1>5, <1>6, <1>7, <1>8, <1>9 DEF PassStep

LEMMA WorldTyped ==
    ASSUME TypeInv, WorldStep
    PROVE  /\ facts' \in [Actions -> Facts]
           /\ policy' \in Policy
           /\ history' \subseteq Policy
           /\ today' \in 1..MaxDay
           /\ edit' \in [Edits -> Edit]
           /\ changes' \in Nat
           /\ settled' \subseteq Actions
<1> USE DEF TypeInv, TypeOK
<1>1. ASSUME NEW e \in Edits, BeginEdit(e)
      PROVE  edit' \in [Edits -> Edit] /\ UNCHANGED <<facts, policy, history, today,
                                                      changes, settled>>
  <2>1. [pc |-> "update", base |-> policy.version] \in Edit
    BY NumbersAssumption DEF Edit, Policy
  <2> QED BY <1>1, <2>1 DEF BeginEdit
<1>2. ASSUME NEW e \in Edits, NEW s \in Statuses, ApplyEdit(e, s)
      PROVE  /\ edit' \in [Edits -> Edit]
             /\ policy' \in Policy /\ history' \subseteq Policy
             /\ settled' \subseteq Actions
             /\ UNCHANGED <<facts, today, changes>>
  <2>1. edit' \in [Edits -> Edit] /\ UNCHANGED <<facts, today, changes>>
    BY <1>2 DEF ApplyEdit, Edit
  <2>2. CASE edit[e].base = policy.version
    <3>1. [version |-> policy.version + 1, status |-> s] \in Policy
      BY <1>2, <2>2, NumbersAssumption DEF ApplyEdit, Policy, Edit
    <3> QED BY <1>2, <2>1, <2>2, <3>1 DEF ApplyEdit, Disturb
  <2>3. CASE edit[e].base # policy.version
    BY <1>2, <2>1, <2>3 DEF ApplyEdit
  <2> QED BY <2>2, <2>3
<1>3. ASSUME NEW a \in Actions, NEW f \in Facts, ChangeFacts(a, f)
      PROVE  /\ facts' \in [Actions -> Facts] /\ changes' \in Nat /\ settled' \subseteq Actions
             /\ UNCHANGED <<policy, history, today, edit>>
  BY <1>3 DEF ChangeFacts, Disturb
<1>4. ASSUME NextDay
      PROVE  /\ today' \in 1..MaxDay /\ settled' \subseteq Actions
             /\ UNCHANGED <<facts, policy, history, edit, changes>>
  BY <1>4, NumbersAssumption DEF NextDay, Disturb
<1> QED BY <1>1, <1>2, <1>3, <1>4 DEF WorldStep

-----------------------------------------------------------------------------
(* What each statement of a pass does to the pass *)

\* The fields of a pass, and of a digest, one by one.
LEMMA PassFields ==
    ASSUME NEW x \in Pass
    PROVE  /\ x.pc \in {"idle", "facts", "policy", "scope", "refs", "lookup", "judge",
                       "record", "done"}
           /\ x.digest \in Digest \cup {Nothing}
           /\ x.at \in Nat /\ x.day \in 1..MaxDay /\ x.total \in Nat
           /\ x.clean \in BOOLEAN
           /\ x.status \in {"none", "lost", "no_policy", "already", "recorded"}
           /\ x.after \subseteq Passes /\ x.blind \in BOOLEAN
BY DEF Pass

LEMMA DigestFields ==
    ASSUME NEW d \in Digest
    PROVE  /\ d.action \in Actions /\ d.seen \in Facts \cup {Nothing}
           /\ d.version \in 0..MaxVersion /\ d.scope \in 0..MaxVersion
BY DEF Digest

LEMMA AllowedOnType ==
    ASSUME IsFiniteSet(rows), NEW d
    PROVE  IsFiniteSet(Allowed(d)) /\ AllowedOn(d) \in Nat
<1>1. IsFiniteSet(Allowed(d))
  BY FS_Subset DEF Allowed
<1>2. Cardinality(Allowed(d)) \in Nat
  BY <1>1, FS_CardinalityType
<1> QED BY <1>1, <1>2, NumbersAssumption DEF AllowedOn

Ends(p) ==
    /\ pass[p].pc \notin {"idle", "done"}
    /\ pass'[p].pc = "done"
    /\ pass'[p].digest = pass[p].digest
    /\ pass'[p].status \in {"lost", "no_policy", "already"}
    /\ pass'[p].status = "already" => Existing(pass[p].digest)
    /\ pass'[p].after = pass[p].after /\ pass'[p].blind = pass[p].blind
    /\ UNCHANGED <<rows, clock>>

Begins(p) ==
    /\ pass[p].pc = "idle" /\ pass'[p].pc = "facts"
    /\ pass'[p].digest \in Digest /\ pass'[p].digest.version = 0
    /\ pass'[p].at = clock + 1 /\ pass'[p].status = "none"
    /\ pass'[p].after = {q \in Passes : pass[q].pc = "done"}
    /\ pass'[p].blind = FALSE
    /\ clock' = clock + 1
    /\ UNCHANGED rows

Reads(p) ==
    /\ \/ /\ pass[p].pc = "facts" /\ pass'[p].pc \in {"policy", "scope"}
          /\ pass'[p].digest.version = pass[p].digest.version
       \/ /\ pass[p].pc = "policy" /\ pass'[p].pc \in {"scope", "lookup"}
          /\ pass'[p].digest.version = Matched(pass'[p].digest.seen)
          /\ pass'[p].pc = "scope" => pass'[p].digest.version = 0
       \/ /\ pass[p].pc = "scope" /\ pass'[p].pc = "refs"
          /\ pass'[p].digest = pass[p].digest
       \/ /\ pass[p].pc = "refs" /\ pass'[p].pc = "lookup"
          /\ pass'[p].digest.version = pass[p].digest.version
          /\ pass'[p].digest.seen = pass[p].digest.seen
       \/ /\ pass[p].pc = "lookup" /\ pass'[p].pc = "judge"
          /\ ~Existing(pass[p].digest) \/ pass'[p].blind
          /\ pass'[p].digest = pass[p].digest
       \/ /\ pass[p].pc = "judge" /\ pass'[p].pc = "record"
          /\ pass'[p].total = AllowedOn(pass[p].day)
          /\ pass'[p].digest = pass[p].digest
    /\ pass'[p].digest \in Digest
    /\ pass'[p].digest.action = pass[p].digest.action
    /\ pass'[p].at = pass[p].at /\ pass'[p].day = pass[p].day
    /\ pass'[p].status = "none"
    /\ pass'[p].after = pass[p].after
    /\ pass'[p].blind \/ pass'[p].blind = pass[p].blind
    /\ UNCHANGED <<rows, clock>>

NewRow(p) == [digest |-> pass[p].digest, at |-> pass[p].at, by |-> p, day |-> pass[p].day,
              decision |-> Verdict(pass[p].digest, pass[p].total)]
Records(p) ==
    /\ pass[p].pc = "record" /\ pass'[p].pc = "done"
    /\ rows' = rows \cup {NewRow(p)}
    /\ pass'[p].digest = pass[p].digest
    /\ pass'[p].status = "recorded"
    /\ pass'[p].after = pass[p].after /\ pass'[p].blind = pass[p].blind
    /\ UNCHANGED clock

Effect(p) ==
    /\ pass' \in [Passes -> Pass]
    /\ \A q \in Passes \ {p} : pass'[q] = pass[q]
    /\ settled' \subseteq Actions
    /\ Ends(p) \/ Begins(p) \/ Reads(p) \/ Records(p)

\* Storing a record of the right type for one pass.
LEMMA PassStored ==
    ASSUME pass \in [Passes -> Pass], NEW p \in Passes, NEW x \in Pass,
           pass' = [pass EXCEPT ![p] = x]
    PROVE  /\ pass' \in [Passes -> Pass] /\ pass'[p] = x
           /\ \A q \in Passes \ {p} : pass'[q] = pass[q]
OBVIOUS

LEMMA EndStored ==
    ASSUME TypeInv, NEW p \in Passes, pass[p].pc # "idle",
           NEW s \in {"lost", "no_policy", "already", "recorded"}, End(p, s)
    PROVE  /\ pass' \in [Passes -> Pass]
           /\ \A q \in Passes \ {p} : pass'[q] = pass[q]
           /\ pass'[p].pc = "done" /\ pass'[p].status = s
           /\ pass'[p].digest = pass[p].digest
           /\ pass'[p].after = pass[p].after /\ pass'[p].blind = pass[p].blind
           /\ settled' \subseteq Actions
<1> DEFINE x == [IdlePass EXCEPT !.pc = "done", !.status = s, !.digest = pass[p].digest,
                                 !.after = pass[p].after, !.blind = pass[p].blind]
<1>0. /\ pass \in [Passes -> Pass] /\ pass[p] \in Pass /\ pass[p].digest \in Digest
      /\ settled \subseteq Actions
  BY DEF TypeInv, TypeOK, PassesBegan
<1>1. /\ x.pc = "done" /\ x.status = s /\ x.digest = pass[p].digest
      /\ x.after = pass[p].after /\ x.blind = pass[p].blind
  BY DEF IdlePass
<1>2. x \in Pass
  <2>1. IdlePass \in Pass
    BY NumbersAssumption DEF IdlePass, Pass
  <2>2. pass[p].after \subseteq Passes /\ pass[p].blind \in BOOLEAN
    BY <1>0, PassFields
  <2>3. ASSUME NEW y \in Pass, NEW d \in Digest, NEW A \in SUBSET Passes, NEW b \in BOOLEAN
        PROVE  [y EXCEPT !.pc = "done", !.status = s, !.digest = d, !.after = A,
                         !.blind = b] \in Pass
    BY DEF Pass
  <2> QED BY <1>0, <2>1, <2>2, <2>3
<1>3. pass' = [pass EXCEPT ![p] = x]
  BY DEF End
<1>4. settled' \subseteq Actions
  BY <1>0, DigestFields DEF End
<1> HIDE DEF x
<1> QED BY <1>0, <1>1, <1>2, <1>3, <1>4, PassStored

\* Most statements change the place of a pass, its digest and its mark of being
\* blind, and nothing else.
ReadEffect(p, pc, d, blind) ==
    /\ pass' \in [Passes -> Pass]
    /\ \A q \in Passes \ {p} : pass'[q] = pass[q]
    /\ pass'[p].pc = pc /\ pass'[p].digest = d
    /\ pass'[p].at = pass[p].at /\ pass'[p].day = pass[p].day
    /\ pass'[p].status = "none"
    /\ pass'[p].after = pass[p].after /\ pass'[p].blind = blind

LEMMA ReadStored ==
    ASSUME TypeInv, NEW p \in Passes, pass[p].pc \notin {"idle", "done"},
           NEW pc \in {"policy", "scope", "refs", "lookup", "judge"}, NEW d \in Digest,
           NEW clean \in BOOLEAN, NEW blind \in BOOLEAN,
           pass' = [pass EXCEPT ![p] = [pass[p] EXCEPT !.pc = pc, !.digest = d,
                                                       !.clean = clean, !.blind = blind]]
    PROVE  ReadEffect(p, pc, d, blind)
<1> DEFINE x == [pass[p] EXCEPT !.pc = pc, !.digest = d, !.clean = clean, !.blind = blind]
<1>0. /\ pass \in [Passes -> Pass] /\ pass[p] \in Pass /\ pass[p].status = "none"
  BY DEF TypeInv, TypeOK, PassesBegan
<1>1. /\ x \in Pass /\ x.pc = pc /\ x.digest = d
      /\ x.at = pass[p].at /\ x.day = pass[p].day /\ x.status = pass[p].status
      /\ x.after = pass[p].after /\ x.blind = blind
  BY <1>0 DEF Pass
<1>2. pass' = [pass EXCEPT ![p] = x]
  OBVIOUS
<1> HIDE DEF x
<1> QED BY <1>0, <1>1, <1>2, PassStored DEF ReadEffect

LEMMA PassEffect ==
    ASSUME TypeInv, IsFiniteSet(rows), NEW p \in Passes, PassStep(p)
    PROVE  Effect(p)
<1> DEFINE d == pass[p].digest
<1>0. /\ pass \in [Passes -> Pass] /\ pass[p] \in Pass
      /\ clock \in Nat /\ today \in 1..MaxDay /\ settled \subseteq Actions
  BY DEF TypeInv, TypeOK
<1>a. pass[p].pc # "idle" => d \in Digest
  BY DEF TypeInv, PassesBegan
<1>b. pass[p].pc # "done" => pass[p].status = "none"
  BY DEF TypeInv, PassesBegan
<1>c. pass[p].blind \in BOOLEAN /\ pass[p].clean \in BOOLEAN
  BY <1>0, PassFields
<1>1. ASSUME NEW a \in Actions, BeginPass(p, a) PROVE Effect(p)
  <2> DEFINE e == [action |-> a, seen |-> Nothing, version |-> 0, scope |-> 0]
             D == {q \in Passes : pass[q].pc = "done"}
             x == [pc |-> "facts", digest |-> e, at |-> clock + 1, day |-> today,
                   total |-> 0, clean |-> TRUE, status |-> "none", blind |-> FALSE,
                   after |-> D]
  <2>1. e \in Digest /\ e.version = 0
    BY NumbersAssumption DEF Digest
  <2>2. pass' = [pass EXCEPT ![p] = x]
    BY <1>1 DEF BeginPass
  <2> HIDE DEF e
  <2>3. x \in Pass
    BY <1>0, <2>1 DEF Pass
  <2>4. /\ x.pc = "facts" /\ x.digest = e /\ x.at = clock + 1 /\ x.status = "none"
        /\ x.after = D /\ x.blind = FALSE
    OBVIOUS
  <2> HIDE DEF x
  <2> QED BY <1>0, <1>1, <2>1, <2>2, <2>3, <2>4, PassStored DEF BeginPass, Effect, Begins
<1>2. CASE ReadFacts(p)
  <2>1. CASE End(p, "lost")
    BY <1>2, <2>1, EndStored DEF ReadFacts, Effect, Ends
  <2>2. CASE /\ pass' = [pass EXCEPT ![p].pc = "policy", ![p].digest.seen = facts[d.action]]
             /\ UNCHANGED settled
    <3> DEFINE e == [d EXCEPT !.seen = facts[d.action]]
    <3>1. e \in Digest /\ e.action = d.action /\ e.version = d.version
      <4>1. facts[d.action] \in Facts
        BY <1>2, <1>a, DigestFields DEF ReadFacts, TypeInv, TypeOK
      <4> QED BY <1>2, <1>a, <4>1 DEF Digest, ReadFacts
    <3>2. pass' = [pass EXCEPT ![p] = [pass[p] EXCEPT !.pc = "policy", !.digest = e,
                                 !.clean = pass[p].clean, !.blind = pass[p].blind]]
      BY <1>0, <2>2 DEF Pass
    <3> HIDE DEF e
    <3>3. pass[p].pc = "facts" /\ UNCHANGED <<rows, clock>>
      BY <1>2 DEF ReadFacts
    <3>4. ReadEffect(p, "policy", e, pass[p].blind)
      BY <1>c, <3>1, <3>2, <3>3, ReadStored
    <3> QED BY <1>0, <2>2, <3>1, <3>3, <3>4 DEF ReadEffect, Effect, Reads
  <2>3. CASE /\ pass' = [pass EXCEPT ![p].pc = "scope", ![p].clean = FALSE]
             /\ UNCHANGED settled
    <3>1. pass' = [pass EXCEPT ![p] = [pass[p] EXCEPT !.pc = "scope", !.digest = d,
                                 !.clean = FALSE, !.blind = pass[p].blind]]
      BY <1>0, <2>3 DEF Pass
    <3>2. pass[p].pc = "facts" /\ UNCHANGED <<rows, clock>>
      BY <1>2 DEF ReadFacts
    <3>3. ReadEffect(p, "scope", d, pass[p].blind)
      BY <1>a, <1>c, <3>1, <3>2, ReadStored
    <3> QED BY <1>0, <1>a, <2>3, <3>2, <3>3 DEF ReadEffect, Effect, Reads
  <2> QED BY <1>2, <2>1, <2>2, <2>3 DEF ReadFacts
<1>3. CASE ReadPolicy(p)
  <2>1. CASE End(p, "lost")
    BY <1>3, <2>1, EndStored DEF ReadPolicy, Effect, Ends
  <2>2. CASE ~End(p, "lost")
    <3> DEFINE v == Matched(d.seen)
               pc == IF v # 0 THEN "lookup" ELSE "scope"
               e == [d EXCEPT !.version = v]
    <3>1. v \in 0..MaxVersion
      BY NumbersAssumption DEF Matched, TypeInv, TypeOK, Policy
    <3>2. e \in Digest /\ e.version = v /\ e.seen = d.seen /\ e.action = d.action
      BY <1>3, <1>a, <3>1 DEF Digest, ReadPolicy
    <3>3. /\ pass' = [pass EXCEPT ![p].pc = pc, ![p].digest.version = v]
          /\ pass[p].pc = "policy" /\ UNCHANGED <<rows, clock, settled>>
      BY <1>3, <2>2 DEF ReadPolicy
    <3> HIDE DEF v
    <3>4. pc \in {"lookup", "scope"} /\ (pc = "scope" => v = 0)
      OBVIOUS
    <3> HIDE DEF pc
    <3>5. pass' = [pass EXCEPT ![p] = [pass[p] EXCEPT !.pc = pc, !.digest = e,
                                 !.clean = pass[p].clean, !.blind = pass[p].blind]]
      BY <1>0, <3>3 DEF Pass
    <3>6. v = Matched(e.seen)
      BY <3>2 DEF v
    <3> HIDE DEF e
    <3>7. ReadEffect(p, pc, e, pass[p].blind)
      <4>1. pass[p].pc = "policy" /\ e \in Digest
        BY <3>2, <3>3
      <4> QED BY <1>c, <3>4, <3>5, <4>1, ReadStored
    <3>8. pass'[p].pc = "scope" => pass'[p].digest.version = 0
      BY <3>2, <3>4, <3>7 DEF ReadEffect
    <3>9. pass'[p].pc \in {"scope", "lookup"} /\ pass'[p].digest = e
      BY <3>4, <3>7 DEF ReadEffect
    <3>10. Reads(p)
      BY <3>2, <3>3, <3>6, <3>7, <3>8, <3>9 DEF ReadEffect, Reads
    <3> QED BY <1>0, <3>3, <3>7, <3>10 DEF ReadEffect, Effect
  <2> QED BY <2>1, <2>2
<1>4. CASE ReadScope(p)
  <2>1. ASSUME NEW s \in {"lost", "no_policy"}, End(p, s) PROVE Effect(p)
    BY <1>4, <2>1, EndStored DEF ReadScope, Effect, Ends
  <2>2. CASE pass' = [pass EXCEPT ![p].pc = "refs"] /\ UNCHANGED settled
    <3>1. pass' = [pass EXCEPT ![p] = [pass[p] EXCEPT !.pc = "refs", !.digest = d,
                                 !.clean = pass[p].clean, !.blind = pass[p].blind]]
      BY <1>0, <2>2 DEF Pass
    <3>2. pass[p].pc = "scope" /\ UNCHANGED <<rows, clock>>
      BY <1>4 DEF ReadScope
    <3>3. ReadEffect(p, "refs", d, pass[p].blind)
      BY <1>a, <1>c, <3>1, <3>2, ReadStored
    <3> QED BY <1>0, <1>a, <2>2, <3>2, <3>3 DEF ReadEffect, Effect, Reads
  <2> QED BY <1>4, <2>1, <2>2 DEF ReadScope
<1>5. CASE ReadRefs(p)
  <2>1. PICK v \in {0, InScope} :
          pass' = [pass EXCEPT ![p].pc = "lookup", ![p].digest.scope = v]
    BY <1>5 DEF ReadRefs
  <2>2. v \in 0..MaxVersion
    BY NumbersAssumption DEF InScope, TypeInv, TypeOK, Policy
  <2> DEFINE e == [d EXCEPT !.scope = v]
  <2>3. e \in Digest /\ e.action = d.action /\ e.seen = d.seen /\ e.version = d.version
    BY <1>5, <1>a, <2>2 DEF Digest, ReadRefs
  <2>4. pass' = [pass EXCEPT ![p] = [pass[p] EXCEPT !.pc = "lookup", !.digest = e,
                               !.clean = pass[p].clean, !.blind = pass[p].blind]]
    BY <1>0, <2>1 DEF Pass
  <2> HIDE DEF e
  <2>5. pass[p].pc = "refs" /\ UNCHANGED <<rows, clock, settled>>
    BY <1>5 DEF ReadRefs
  <2>6. ReadEffect(p, "lookup", e, pass[p].blind)
    BY <1>c, <2>3, <2>4, <2>5, ReadStored
  <2> QED BY <1>0, <2>3, <2>5, <2>6 DEF ReadEffect, Effect, Reads
<1>6. CASE LookUp(p)
  <2>1. CASE Existing(d) /\ End(p, "already")
    BY <1>6, <2>1, EndStored DEF LookUp, Effect, Ends
  <2>2. ASSUME NEW b \in BOOLEAN, ~Existing(d) \/ b, UNCHANGED settled,
               b = pass[p].blind \/ b = TRUE,
               pass' = [pass EXCEPT ![p] = [pass[p] EXCEPT !.pc = "judge", !.digest = d,
                                      !.clean = pass[p].clean, !.blind = b]]
        PROVE  Effect(p)
    <3>1. pass[p].pc = "lookup" /\ UNCHANGED <<rows, clock>>
      BY <1>6 DEF LookUp
    <3>2. ReadEffect(p, "judge", d, b)
      BY <1>a, <1>c, <2>2, <3>1, ReadStored
    <3> QED BY <1>0, <1>a, <1>c, <2>2, <3>1, <3>2 DEF ReadEffect, Effect, Reads
  <2>3. CASE ~Existing(d) /\ pass' = [pass EXCEPT ![p].pc = "judge"] /\ UNCHANGED settled
    <3>1. pass' = [pass EXCEPT ![p] = [pass[p] EXCEPT !.pc = "judge", !.digest = d,
                                 !.clean = pass[p].clean, !.blind = pass[p].blind]]
      BY <1>0, <2>3 DEF Pass
    <3> QED BY <1>c, <2>2, <2>3, <3>1
  <2>4. CASE pass' = [pass EXCEPT ![p].pc = "judge", ![p].blind = TRUE] /\ UNCHANGED settled
    <3>1. pass' = [pass EXCEPT ![p] = [pass[p] EXCEPT !.pc = "judge", !.digest = d,
                                 !.clean = pass[p].clean, !.blind = TRUE]]
      BY <1>0, <2>4 DEF Pass
    <3> QED BY <2>2, <2>4, <3>1
  <2> QED BY <1>6, <2>1, <2>3, <2>4 DEF LookUp
<1>7. CASE ReadTotal(p)
  <2> DEFINE t == AllowedOn(pass[p].day)
             x == [pass[p] EXCEPT !.pc = "record", !.total = t]
  <2>1. t \in Nat
    BY AllowedOnType
  <2>2. pass' = [pass EXCEPT ![p] = x] /\ pass[p].pc = "judge"
    BY <1>0, <1>7 DEF ReadTotal
  <2>3. UNCHANGED <<rows, clock, settled>>
    BY <1>7 DEF ReadTotal
  <2> HIDE DEF t
  <2>4. /\ x \in Pass /\ x.pc = "record" /\ x.digest = d /\ x.total = t
        /\ x.at = pass[p].at /\ x.day = pass[p].day /\ x.status = pass[p].status
        /\ x.after = pass[p].after /\ x.blind = pass[p].blind
    BY <1>0, <2>1 DEF Pass
  <2>5. t = AllowedOn(pass[p].day)
    BY DEF t
  <2> HIDE DEF x
  <2> QED BY <1>0, <1>a, <1>b, <1>c, <2>2, <2>3, <2>4, <2>5, PassStored DEF Effect, Reads
<1>8. CASE Record(p)
  BY <1>8, EndStored DEF Record, Effect, Records, NewRow
<1>9. CASE AbortPass(p)
  BY <1>9, EndStored DEF AbortPass, Effect, Ends
<1> QED BY <1>1, <1>2, <1>3, <1>4, <1>5, <1>6, <1>7, <1>8, <1>9 DEF PassStep

-----------------------------------------------------------------------------
(* The type invariant is inductive *)

Typed == TypeInv /\ IsFiniteSet(rows)

\* A step is one statement of a pass, or leaves the passes where they are.
Moves ==
    \/ \E p \in Passes : PassStep(p) /\ Effect(p) /\ UNCHANGED world
    \/ /\ WorldStep
       /\ PassesKept
       /\ UNCHANGED <<rows, clock>>

LEMMA NextMoves ==
    ASSUME Typed, Next
    PROVE  Moves
<1>1. CASE WorldStep
  <2>1. pass \in [Passes -> Pass] /\ (Disturb \/ pass' = pass)
    BY <1>1, WorldFrame DEF Typed, TypeInv, TypeOK
  <2> QED BY <1>1, <2>1, DisturbedPasses, WorldFrame DEF Moves
<1>2. ASSUME NEW p \in Passes, PassStep(p) PROVE Moves
  BY <1>2, PassEffect, PassFrame DEF Typed, Moves
<1> QED BY <1>1, <1>2, NextSplits

LEMMA NewRowTyped ==
    ASSUME Typed, NEW p \in Passes, pass[p].pc = "record"
    PROVE  /\ NewRow(p) \in RowOf
           /\ NewRow(p).digest = pass[p].digest
           /\ NewRow(p).at = pass[p].at
           /\ NewRow(p).day = pass[p].day
           /\ NewRow(p).decision = Verdict(pass[p].digest, pass[p].total)
<1>1. pass[p] \in Pass /\ pass[p].digest \in Digest
  BY DEF Typed, TypeInv, TypeOK, PassesBegan
<1>2. Verdict(pass[p].digest, pass[p].total) \in {"ALLOW", "DENY"}
  BY DEF Verdict
<1> QED BY <1>1, <1>2, PassFields DEF NewRow, RowOf

LEMMA TypedInit == Init => Typed
<1> SUFFICES ASSUME Init PROVE Typed
  OBVIOUS
<1>1. IdlePass \in Pass /\ IdlePass.pc = "idle" /\ IdlePass.status = "none"
  BY NumbersAssumption DEF IdlePass, Pass
<1>2. pass = [p \in Passes |-> IdlePass]
  BY DEF Init
<1>3. pass \in [Passes -> Pass] /\ PassesBegan
  BY <1>1, <1>2 DEF PassesBegan
<1>4. policy \in Policy /\ history \subseteq Policy
  BY NumbersAssumption DEF Init, Policy, Statuses
<1>5. [pc |-> "idle", base |-> 0] \in Edit
  BY NumbersAssumption DEF Edit
<1>6. edit \in [Edits -> Edit]
  BY <1>5 DEF Init
<1>7. IsFiniteSet(rows)
  BY FS_EmptySet DEF Init
<1>8. /\ rows \subseteq RowOf
      /\ clock \in Nat /\ changes \in Nat /\ today \in 1..MaxDay /\ settled \subseteq Actions
      /\ facts \in [Actions -> Facts]
  BY NumbersAssumption DEF Init
<1> QED BY <1>3, <1>4, <1>6, <1>7, <1>8 DEF Typed, TypeInv, TypeOK

LEMMA TypedPassStep ==
    ASSUME Typed, NEW p \in Passes, Effect(p), UNCHANGED world
    PROVE  Typed'
<1>1. pass' \in [Passes -> Pass] /\ settled' \subseteq Actions
  BY DEF Effect
<1>2. PassesBegan'
  <2> SUFFICES ASSUME NEW q \in Passes
               PROVE  /\ pass'[q].pc # "idle" => pass'[q].digest \in Digest
                      /\ pass'[q].pc # "done" => pass'[q].status = "none"
    BY DEF PassesBegan
  <2>1. CASE q # p
    BY <2>1 DEF Effect, Typed, TypeInv, PassesBegan
  <2>2. CASE q = p
    BY <2>2 DEF Effect, Ends, Begins, Reads, Records, Typed, TypeInv, PassesBegan
  <2> QED BY <2>1, <2>2
<1>3. clock' \in Nat
  BY DEF Effect, Ends, Begins, Reads, Records, Typed, TypeInv, TypeOK
<1>4. rows' \subseteq RowOf /\ IsFiniteSet(rows')
  <2>1. CASE Records(p)
    <3>1. NewRow(p) \in RowOf
      BY <2>1, NewRowTyped DEF Records
    <3> QED BY <2>1, <3>1, FS_AddElement DEF Records, Typed, TypeInv, TypeOK
  <2>2. CASE UNCHANGED rows
    BY <2>2 DEF Typed, TypeInv, TypeOK
  <2> QED BY <2>1, <2>2 DEF Effect, Ends, Begins, Reads
<1> QED BY <1>1, <1>2, <1>3, <1>4 DEF Typed, TypeInv, TypeOK, world

LEMMA TypedWorldStep ==
    ASSUME Typed, WorldStep
    PROVE  Typed'
<1>1. pass \in [Passes -> Pass] /\ (Disturb \/ pass' = pass)
  BY WorldFrame DEF Typed, TypeInv, TypeOK
<1>2. pass' \in [Passes -> Pass] /\ PassesKept
  BY <1>1, DisturbedPasses
<1>3. PassesBegan'
  BY <1>2 DEF PassesKept, PassesBegan, Typed, TypeInv
<1> QED BY <1>2, <1>3, WorldTyped, WorldFrame DEF Typed, TypeInv, TypeOK

LEMMA TypedStep ==
    ASSUME Typed, [Next]_vars
    PROVE  Typed'
<1>1. CASE Next
  BY <1>1, TypedPassStep, TypedWorldStep, NextSplits, PassEffect, PassFrame DEF Typed
<1>2. CASE UNCHANGED vars
  BY <1>2 DEF vars, Typed, TypeInv, TypeOK, PassesBegan
<1> QED BY <1>1, <1>2

LEMMA AlwaysTyped == Spec => []Typed
<1>1. Typed /\ [Next]_vars => Typed'
  BY TypedStep
<1> QED BY <1>1, TypedInit, PTL DEF Spec

\* Every variable keeps its type: a pass that ended or was disturbed still holds
\* a digest, and the table only ever receives whole rows.
THEOREM TypeCorrect == Spec => []TypeOK
<1>1. Typed => TypeOK
  BY DEF Typed, TypeInv
<1> QED BY <1>1, AlwaysTyped, PTL

-----------------------------------------------------------------------------
(* The history of the policy *)

HistoryInv == IsFiniteSet(history) /\ HistoryMatchesPolicy

LEMMA HistoryInit == Init => HistoryInv
<1> SUFFICES ASSUME Init PROVE HistoryInv
  OBVIOUS
<1>1. history = {policy} /\ policy.version = 1
  BY DEF Init
<1>2. IsFiniteSet(history) /\ Cardinality(history) = 1
  BY <1>1, FS_Singleton
<1>3. {h.version : h \in history} = {1} /\ 1..1 = {1}
  BY <1>1
<1> QED BY <1>1, <1>2, <1>3 DEF HistoryInv, HistoryMatchesPolicy

\* The one step that disturbs it: an edit whose version is still the current
\* one.  Its row is new, for no row of the history carries the next version.
LEMMA HistoryEdit ==
    ASSUME Typed, HistoryInv, NEW s \in Statuses,
           policy' = [version |-> policy.version + 1, status |-> s],
           history' = history \cup {policy'}
    PROVE  HistoryInv'
<1> DEFINE v == policy.version
<1>1. v \in Nat \ {0} /\ policy'.version = v + 1
  BY NumbersAssumption DEF Typed, TypeInv, TypeOK, Policy
<1>2. {h.version : h \in history} = 1..v /\ Cardinality(history) = v
  BY DEF HistoryInv, HistoryMatchesPolicy
<1>3. policy' \notin history
  BY <1>1, <1>2
<1>4. IsFiniteSet(history') /\ Cardinality(history') = v + 1
  BY <1>2, <1>3, FS_AddElement DEF HistoryInv
<1>5. {h.version : h \in history'} = {h.version : h \in history} \cup {v + 1}
  BY <1>1
<1>6. 1..(v + 1) = (1..v) \cup {v + 1}
  BY <1>1
<1> QED BY <1>1, <1>2, <1>4, <1>5, <1>6 DEF HistoryInv, HistoryMatchesPolicy

LEMMA HistoryStep ==
    ASSUME Typed, HistoryInv, [Next]_vars
    PROVE  HistoryInv'
<1>0. CASE UNCHANGED <<policy, history>>
  BY <1>0 DEF HistoryInv, HistoryMatchesPolicy
<1>1. ASSUME NEW p \in Passes, PassStep(p) PROVE UNCHANGED <<policy, history>>
  BY <1>1, PassFrame DEF world
<1>2. ASSUME NEW e \in Edits, NEW s \in Statuses, ApplyEdit(e, s) PROVE HistoryInv'
  <2>1. CASE edit[e].base = policy.version
    BY <1>2, <2>1, HistoryEdit DEF ApplyEdit
  <2>2. CASE edit[e].base # policy.version
    BY <1>2, <2>2, <1>0 DEF ApplyEdit
  <2> QED BY <2>1, <2>2
<1>3. ASSUME WorldStep, ~ UNCHANGED <<policy, history>>
      PROVE  \E e \in Edits, s \in Statuses : ApplyEdit(e, s)
  BY <1>3 DEF WorldStep, BeginEdit, ChangeFacts, NextDay
<1>4. CASE Next
  BY <1>0, <1>1, <1>2, <1>3, <1>4, NextSplits
<1>5. CASE UNCHANGED vars
  BY <1>0, <1>5 DEF vars
<1> QED BY <1>4, <1>5

\* The versions of the policy are numbered without a gap or a fork and end in
\* the row in force, however the edits of the policy interleave.
THEOREM HistoryAlwaysMatches == Spec => []HistoryMatchesPolicy
<1>1. Init => HistoryInv
  BY HistoryInit
<1>2. HistoryInv /\ Typed /\ [Next]_vars => HistoryInv'
  BY HistoryStep
<1>3. HistoryInv => HistoryMatchesPolicy
  BY DEF HistoryInv
<1> QED BY <1>1, <1>2, <1>3, AlwaysTyped, PTL DEF Spec

-----------------------------------------------------------------------------
(* What the gate reads *)

\* A version in a digest is that of a policy matched on facts that establish the
\* operation.
Known(d)    == d.version # 0 => d.seen \in Identified
Permitted(d) == d.version # 0 /\ d.seen \in Permits[d.version]

Newest(R) == R = {} \/ \E r \in R : \A q \in R : q.at <= r.at

GateInv ==
    /\ \A p \in Passes : pass[p].pc # "idle" =>
          /\ Known(pass[p].digest)
          /\ pass[p].pc \in {"facts", "policy", "scope", "refs"} =>
                pass[p].digest.version = 0
    /\ \A r \in rows : /\ Known(r.digest)
                       /\ r.decision = "ALLOW" => Permitted(r.digest)
    /\ Newest(rows)
    /\ \A a \in Actions : Newest(Own(a))

LEMMA NewestKept ==
    ASSUME NEW R, R \subseteq RowOf, Newest(R), NEW x \in RowOf
    PROVE  Newest(R \cup {x})
<1>1. x.at \in Nat /\ \A r \in R : r.at \in Nat
  BY DEF RowOf
<1>2. CASE R = {}
  BY <1>1, <1>2 DEF Newest
<1>3. CASE R # {}
  <2>1. PICK r \in R : \A q \in R : q.at <= r.at
    BY <1>3 DEF Newest
  <2>2. CASE x.at <= r.at
    BY <2>1, <2>2 DEF Newest
  <2>3. CASE r.at <= x.at
    BY <1>1, <2>1, <2>3 DEF Newest
  <2> QED BY <1>1, <2>1, <2>2, <2>3
<1> QED BY <1>2, <1>3

LEMMA LatestIsOne ==
    ASSUME NEW R, R # {}, Newest(R)
    PROVE  Latest(R) \in R
BY DEF Newest, Latest

LEMMA GateInit == Init => GateInv
BY DEF Init, GateInv, IdlePass, Newest, Own

LEMMA GatePassStep ==
    ASSUME Typed, GateInv, NEW p \in Passes, Effect(p)
    PROVE  GateInv'
<1>1. /\ \A q \in Passes : pass'[q].pc # "idle" =>
            /\ Known(pass'[q].digest)
            /\ pass'[q].pc \in {"facts", "policy", "scope", "refs"} =>
                  pass'[q].digest.version = 0
  <2> SUFFICES ASSUME NEW q \in Passes, pass'[q].pc # "idle"
               PROVE  /\ Known(pass'[q].digest)
                      /\ pass'[q].pc \in {"facts", "policy", "scope", "refs"} =>
                            pass'[q].digest.version = 0
    OBVIOUS
  <2>1. CASE q # p
    BY <2>1 DEF Effect, GateInv
  <2>2. CASE q = p /\ (Ends(p) \/ Records(p))
    BY <2>2 DEF Ends, Records, GateInv
  <2>3. CASE q = p /\ Begins(p)
    BY <2>3 DEF Begins, Known
  <2>4. CASE q = p /\ Reads(p)
    BY <2>4 DEF Reads, GateInv, Known, Matched
  <2> QED BY <2>1, <2>2, <2>3, <2>4 DEF Effect
<1>2. CASE UNCHANGED rows
  BY <1>1, <1>2 DEF GateInv, Newest, Own
<1>3. CASE Records(p)
  <2> DEFINE x == NewRow(p)
  <2>1. /\ x \in RowOf /\ x.digest = pass[p].digest
        /\ x.decision = Verdict(pass[p].digest, pass[p].total)
    BY <1>3, NewRowTyped DEF Records
  <2>2. rows' = rows \cup {x} /\ rows \subseteq RowOf
    BY <1>3 DEF Records, Typed, TypeInv, TypeOK
  <2> HIDE DEF x
  <2>3. Known(x.digest) /\ (x.decision = "ALLOW" => Permitted(x.digest))
    BY <1>3, <2>1 DEF Records, GateInv, Verdict, Permitted
  <2>4. Newest(rows')
    BY <2>1, <2>2, NewestKept DEF GateInv
  <2>5. ASSUME NEW a \in Actions PROVE Newest(Own(a))'
    <3>1. Own(a) \subseteq RowOf /\ Newest(Own(a))
      BY <2>2 DEF Own, GateInv
    <3>2. Own(a)' = Own(a) \/ Own(a)' = Own(a) \cup {x}
      BY <2>2 DEF Own
    <3>3. Newest(Own(a) \cup {x})
      BY <2>1, <3>1, NewestKept
    <3> QED BY <3>1, <3>2, <3>3 DEF Newest
  <2>6. \A r \in rows' : /\ Known(r.digest)
                         /\ r.decision = "ALLOW" => Permitted(r.digest)
    BY <2>2, <2>3 DEF GateInv
  <2> QED BY <1>1, <2>4, <2>5, <2>6 DEF GateInv, Newest
<1> QED BY <1>2, <1>3 DEF Effect, Ends, Begins, Reads

LEMMA GateStep ==
    ASSUME Typed, GateInv, [Next]_vars
    PROVE  GateInv'
<1>1. ASSUME PassesKept, UNCHANGED rows PROVE GateInv'
  BY <1>1 DEF PassesKept, GateInv, Newest, Own
<1>2. CASE Next
  BY <1>1, <1>2, NextMoves, GatePassStep DEF Moves
<1>3. CASE UNCHANGED vars
  BY <1>1, <1>3 DEF vars, PassesKept
<1> QED BY <1>2, <1>3

LEMMA GateReadsItsRow ==
    ASSUME Typed, GateInv
    PROVE  GateRestsOnAVerdict
<1> SUFFICES ASSUME NEW a \in Actions, GatePolicyHolds(a)
             PROVE  \/ rows = {} /\ policy.status # "ACTIVE"
                    \/ \E r \in Own(a) :
                          /\ r.decision = "ALLOW"
                          /\ r.digest.version = policy.version
                          /\ r.digest.seen \in Permits[policy.version] \cap Identified
  BY DEF GateRestsOnAVerdict
<1>1. rows \subseteq RowOf
  BY DEF Typed, TypeInv, TypeOK
<1>2. Own(a) # {} => Seen(a) \in Own(a)
  BY LatestIsOne DEF Seen, GateInv
<1>3. Own(a) = {} /\ rows # {} => Seen(a) \in rows
  BY LatestIsOne DEF Seen, GateInv
<1>4. Own(a) \subseteq rows
  BY DEF Own
<1>5. CASE Seen(a) = Nothing
  <2>1. rows = {}
    BY <1>1, <1>2, <1>3, <1>4, <1>5, NothingAssumption
  <2> QED BY <1>5, <2>1 DEF GatePolicyHolds, Governed
<1>6. CASE Seen(a) # Nothing
  <2> DEFINE r == Seen(a)
  <2>1. r.decision = "ALLOW" /\ r.digest.action = a /\ r.digest.version = policy.version
    BY <1>6 DEF GatePolicyHolds
  <2>2. r \in rows
    BY <1>2, <1>3, <1>4, <1>6 DEF Seen
  <2> HIDE DEF r
  <2>3. r \in Own(a)
    BY <2>1, <2>2 DEF Own
  <2>4. r.digest.seen \in Permits[policy.version] \cap Identified
    BY <2>1, <2>2 DEF GateInv, Permitted, Known
  <2> QED BY <2>1, <2>3, <2>4
<1> QED BY <1>5, <1>6

\* The gate passes an action on policy only for a verdict of that very action on
\* facts the version in force permits, or when nothing governs it.
THEOREM GateAlwaysRests == Spec => []GateRestsOnAVerdict
<1>1. Init => GateInv
  BY GateInit
<1>2. GateInv /\ Typed /\ [Next]_vars => GateInv'
  BY GateStep
<1>3. Typed /\ GateInv => GateRestsOnAVerdict
  BY GateReadsItsRow
<1> QED BY <1>1, <1>2, <1>3, AlwaysTyped, PTL DEF Spec

-----------------------------------------------------------------------------
(* What a pass reports *)

Reported ==
    \A p \in Passes : pass[p].status \in {"already", "recorded"} =>
        pass[p].pc = "done" /\ Existing(pass[p].digest)

LEMMA ReportedPassStep ==
    ASSUME Typed, Reported, NEW p \in Passes, Effect(p)
    PROVE  Reported'
<1>1. rows \subseteq rows'
  BY DEF Effect, Ends, Begins, Reads, Records
<1>2. \A d : Existing(d) => Existing(d)'
  BY <1>1 DEF Existing
<1> SUFFICES ASSUME NEW q \in Passes, pass'[q].status \in {"already", "recorded"}
             PROVE  pass'[q].pc = "done" /\ \E r \in rows' : r.digest = pass'[q].digest
  BY DEF Reported, Existing
<1>3. CASE q # p
  BY <1>1, <1>3 DEF Effect, Reported, Existing
<1>4. CASE q = p /\ Ends(p)
  BY <1>1, <1>4 DEF Ends, Existing
<1>5. CASE q = p /\ Records(p)
  <2>1. NewRow(p) \in rows' /\ NewRow(p).digest = pass[p].digest
    BY <1>5, NewRowTyped DEF Records
  <2> QED BY <1>5, <2>1 DEF Records
<1>6. CASE q = p /\ (Begins(p) \/ Reads(p))
  BY <1>6 DEF Begins, Reads
<1> QED BY <1>3, <1>4, <1>5, <1>6 DEF Effect

\* A pass that reports a verdict leaves one for this action, whatever the other
\* passes, the editors and the facts do meanwhile.
THEOREM ReportsAreBacked == Spec => []ReportedVerdictExists
<1>1. Init => Reported
  BY DEF Init, Reported, IdlePass
<1>2. Reported /\ Typed /\ [Next]_vars => Reported'
  <2>1. ASSUME Reported, PassesKept, UNCHANGED rows PROVE Reported'
    BY <2>1 DEF PassesKept, Reported, Existing
  <2>2. ASSUME Reported, Typed, Next PROVE Reported'
    BY <2>1, <2>2, NextMoves, ReportedPassStep DEF Moves
  <2>3. ASSUME UNCHANGED vars PROVE PassesKept /\ UNCHANGED rows
    BY <2>3 DEF vars, PassesKept
  <2> QED BY <2>1, <2>2, <2>3
<1>3. Reported => ReportedVerdictExists
  BY DEF Reported, ReportedVerdictExists, Existing, Own
<1> QED BY <1>1, <1>2, <1>3, AlwaysTyped, PTL DEF Spec

-----------------------------------------------------------------------------
(* Passes one after the other *)

\* What a pass knows of the passes that had ended when it began: they are done for
\* good, so the ALLOWs they left are all in the total it reads, and unless it could
\* not look it found none of them to have decided its digest.
Prior(p, d) == {r \in Allowed(d) : r.by \in pass[p].after}

OrderInv ==
    /\ \A r \in rows : pass[r.by].pc = "done"
    /\ \A p \in Passes : \A q \in pass[p].after : pass[q].pc = "done"
    /\ \A p \in Passes :
          /\ pass[p].pc = "idle" => pass[p].after = {}
          /\ pass[p].pc = "record" =>
                Cardinality(Prior(p, pass[p].day)) * Amount <= pass[p].total
          /\ pass[p].pc \in {"judge", "record"} =>
                \/ pass[p].blind
                \/ \A r \in rows : r.by \in pass[p].after => r.digest # pass[p].digest

OneAfterAnother == OrderInv /\ EachAllowFits /\ DecidedAgainOnlyBlind

LEMMA PriorFinite ==
    ASSUME Typed, NEW p, NEW d
    PROVE  /\ IsFiniteSet(Prior(p, d)) /\ Cardinality(Prior(p, d)) \in Nat
           /\ Cardinality(Prior(p, d)) <= Cardinality(Allowed(d))
           /\ Cardinality(Allowed(d)) \in Nat
<1>1. IsFiniteSet(Allowed(d)) /\ Prior(p, d) \subseteq Allowed(d)
  BY AllowedOnType DEF Typed, Prior
<1> QED BY <1>1, FS_Subset, FS_CardinalityType

LEMMA OrderInit == Init => OneAfterAnother
BY DEF Init, IdlePass, OneAfterAnother, OrderInv, EachAllowFits, DecidedAgainOnlyBlind

\* A step that adds no row and keeps every pass that is done.
LEMMA OrderRead ==
    ASSUME Typed, OneAfterAnother, NEW p \in Passes, Effect(p), UNCHANGED rows
    PROVE  OneAfterAnother'
<1>1. /\ \A q \in Passes : pass[q].pc = "done" => pass'[q] = pass[q]
      /\ \A r \in rows : r.by \in Passes /\ pass[r.by].pc = "done"
  <2>1. pass[p].pc # "done"
    BY DEF Effect, Ends, Begins, Reads, Records
  <2>2. \A r \in rows : r.by \in Passes
    BY DEF Typed, TypeInv, TypeOK, RowOf
  <2> QED BY <2>1, <2>2 DEF Effect, OneAfterAnother, OrderInv
<1>2. \A r \in rows : pass'[r.by] = pass[r.by]
  BY <1>1
<1>3. EachAllowFits' /\ DecidedAgainOnlyBlind'
  BY <1>2 DEF OneAfterAnother, EachAllowFits, DecidedAgainOnlyBlind, Allowed
<1>4. \A r \in rows' : pass'[r.by].pc = "done"
  BY <1>1
<1>5. ASSUME NEW q \in Passes
      PROVE  /\ \A o \in pass'[q].after : pass'[o].pc = "done"
             /\ pass'[q].pc = "idle" => pass'[q].after = {}
  <2>1. pass'[q].after = pass[q].after \/ pass'[q].after = {o \in Passes : pass[o].pc = "done"}
    BY DEF Effect, Ends, Begins, Reads, Records
  <2>2. \A o \in pass[q].after : o \in Passes /\ pass[o].pc = "done"
    BY PassFields DEF OneAfterAnother, OrderInv, Typed, TypeInv, TypeOK
  <2>3. pass'[q].pc = "idle" => pass'[q] = pass[q]
    BY DEF Effect, Ends, Begins, Reads, Records
  <2> QED BY <1>1, <2>1, <2>2, <2>3 DEF OneAfterAnother, OrderInv
<1>6. ASSUME NEW q \in Passes, pass'[q].pc = "record"
      PROVE  Cardinality(Prior(q, pass[q].day)') * Amount <= pass'[q].total
             /\ pass'[q].day = pass[q].day
  <2>0. pass'[q].after = pass[q].after /\ pass'[q].day = pass[q].day
    BY <1>6 DEF Effect, Ends, Begins, Reads, Records
  <2>1. Prior(q, pass[q].day)' = Prior(q, pass'[q].day)
    BY <2>0 DEF Prior, Allowed
  <2>2. CASE q # p
    BY <1>6, <2>0, <2>1, <2>2 DEF Effect, OneAfterAnother, OrderInv
  <2>3. CASE q = p
    <3>1. pass'[q].total = AllowedOn(pass[q].day)
      BY <1>6, <2>3 DEF Effect, Ends, Begins, Reads, Records
    <3>2. ASSUME NEW m \in Nat, NEW n \in Nat, m <= n PROVE m * Amount <= n * Amount
      BY <3>2, NumbersAssumption
    <3> QED BY <2>0, <2>1, <3>1, <3>2, PriorFinite DEF AllowedOn
  <2> QED BY <2>0, <2>2, <2>3
<1>7. ASSUME NEW q \in Passes, pass'[q].pc \in {"judge", "record"}, ~pass'[q].blind,
             NEW r \in rows, r.by \in pass'[q].after
      PROVE  r.digest # pass'[q].digest
  <2>1. CASE q # p
    BY <1>7, <2>1 DEF Effect, OneAfterAnother, OrderInv
  <2>2. CASE q = p /\ pass[q].pc = "lookup"
    BY <1>7, <2>2 DEF Effect, Ends, Begins, Reads, Records, Existing
  <2>3. CASE q = p /\ pass[q].pc # "lookup"
    BY <1>7, <2>3 DEF Effect, Ends, Begins, Reads, Records, OneAfterAnother, OrderInv
  <2> QED BY <2>1, <2>2, <2>3
<1>8. OrderInv'
  BY <1>4, <1>5, <1>6, <1>7 DEF OrderInv, Prior, Allowed
<1> QED BY <1>3, <1>8 DEF OneAfterAnother

\* The one step that adds a row.  The pass it is of is not done before, so no pass
\* counts it among those before it, and what any pass knows of its own stays so.
LEMMA OrderRecord ==
    ASSUME Typed, OneAfterAnother, NEW p \in Passes, Effect(p), Records(p)
    PROVE  OneAfterAnother'
<1> DEFINE x == NewRow(p)
<1>1. /\ x \in RowOf /\ x.digest = pass[p].digest /\ x.day = pass[p].day /\ x.by = p
      /\ x.decision = Verdict(pass[p].digest, pass[p].total)
  BY NewRowTyped DEF Records, NewRow
<1>2. rows' = rows \cup {x} /\ pass[p].pc = "record" /\ pass'[p].pc = "done"
  BY DEF Records
<1> HIDE DEF x
<1>3. \A q \in Passes : pass'[q].after = pass[q].after /\ pass'[q].blind = pass[q].blind
  BY DEF Effect, Records
<1>4. \A q \in Passes : p \notin pass[q].after
  BY <1>2 DEF OneAfterAnother, OrderInv
<1>5. \A r \in rows : r.by \in Passes /\ r.by # p
  BY <1>2 DEF Typed, TypeInv, TypeOK, RowOf, OneAfterAnother, OrderInv
<1>6. ASSUME NEW q \in Passes, NEW d PROVE Prior(q, d)' = Prior(q, d)
  BY <1>1, <1>2, <1>3, <1>4 DEF Prior, Allowed
<1>7. OrderInv'
  <2>1. \A r \in rows' : pass'[r.by].pc = "done"
    BY <1>1, <1>2, <1>5 DEF Effect, OneAfterAnother, OrderInv
  <2>2. \A q \in Passes : \A o \in pass'[q].after : pass'[o].pc = "done"
    <3>1. \A q \in Passes : \A o \in pass[q].after : o \in Passes
      BY PassFields DEF Typed, TypeInv, TypeOK
    <3> QED BY <1>3, <1>4, <3>1 DEF Effect, OneAfterAnother, OrderInv
  <2>3. ASSUME NEW q \in Passes
        PROVE  /\ pass'[q].pc = "idle" => pass'[q].after = {}
               /\ pass'[q].pc = "record" =>
                     Cardinality(Prior(q, pass[q].day)') * Amount <= pass'[q].total
               /\ pass'[q].pc \in {"judge", "record"} =>
                     \/ pass'[q].blind
                     \/ \A r \in rows' : r.by \in pass'[q].after =>
                                            r.digest # pass'[q].digest
    <3>1. CASE q = p
      BY <1>2, <3>1
    <3>2. CASE q # p
      <4>1. pass'[q] = pass[q]
        BY <3>2 DEF Effect
      <4> QED BY <1>1, <1>2, <1>4, <1>6, <4>1 DEF OneAfterAnother, OrderInv
    <3> QED BY <3>1, <3>2
  <2> QED BY <2>1, <2>2, <2>3 DEF OrderInv
<1>8. EachAllowFits'
  <2> SUFFICES ASSUME NEW q \in rows', q.decision = "ALLOW"
               PROVE  (Cardinality(Prior(q.by, q.day)') + 1) * Amount <= Cap
    BY DEF EachAllowFits, Prior, Allowed
  <2>1. CASE q \in rows
    <3>1. Prior(q.by, q.day)' = Prior(q.by, q.day)
      BY <1>5, <1>6, <2>1
    <3> QED BY <2>1, <3>1 DEF OneAfterAnother, EachAllowFits, Prior
  <2>2. CASE q = x
    <3> DEFINE n == Cardinality(Prior(p, pass[p].day))
    <3>1. n \in Nat /\ n * Amount <= pass[p].total
      BY <1>2, PriorFinite DEF OneAfterAnother, OrderInv
    <3>2. pass[p].total + Amount <= Cap
      BY <1>1, <2>2 DEF Verdict
    <3>3. Prior(q.by, q.day)' = Prior(p, pass[p].day)
      BY <1>1, <1>6, <2>2
    <3>4. ASSUME NEW m \in Nat PROVE (m + 1) * Amount = m * Amount + Amount
      BY NumbersAssumption
    <3>5. pass[p].total \in Nat
      BY PassFields DEF Typed, TypeInv, TypeOK
    <3>6. n * Amount \in Nat
      BY <3>1, NumbersAssumption
    <3> HIDE DEF n
    <3> QED BY <3>1, <3>2, <3>3, <3>4, <3>5, <3>6, NumbersAssumption DEF n
  <2> QED BY <1>2, <2>1, <2>2
<1>9. DecidedAgainOnlyBlind'
  <2> SUFFICES ASSUME NEW r \in rows', NEW q \in rows', r.digest = q.digest,
                      r.by \in pass'[q.by].after
               PROVE  pass'[q.by].blind
    BY DEF DecidedAgainOnlyBlind
  <2>1. q.by \in Passes
    BY <1>1, <1>2, <1>5
  <2>2. r \in rows
    BY <1>1, <1>2, <1>3, <1>4, <2>1
  <2>3. CASE q \in rows
    BY <1>3, <2>1, <2>2, <2>3 DEF OneAfterAnother, DecidedAgainOnlyBlind
  <2>4. CASE q = x
    BY <1>1, <1>2, <1>3, <2>1, <2>2, <2>4 DEF OneAfterAnother, OrderInv
  <2> QED BY <1>2, <2>3, <2>4
<1> QED BY <1>7, <1>8, <1>9 DEF OneAfterAnother

LEMMA OrderStep ==
    ASSUME Typed, OneAfterAnother, [Next]_vars
    PROVE  OneAfterAnother'
<1>1. ASSUME PassesKept, UNCHANGED rows PROVE OneAfterAnother'
  <2>0. \A r \in rows : r.by \in Passes
    BY DEF Typed, TypeInv, TypeOK, RowOf
  <2>1. \A q \in Passes : \A o \in pass[q].after : o \in Passes
    BY PassFields DEF Typed, TypeInv, TypeOK
  <2>2. \A q \in Passes : Prior(q, pass[q].day)' = Prior(q, pass[q].day)
    BY <1>1 DEF PassesKept, Prior, Allowed
  <2>3. EachAllowFits' /\ DecidedAgainOnlyBlind'
    BY <1>1, <2>0 DEF PassesKept, OneAfterAnother, EachAllowFits, DecidedAgainOnlyBlind,
                      Allowed
  <2>4. OrderInv'
    BY <1>1, <2>0, <2>1, <2>2 DEF PassesKept, OneAfterAnother, OrderInv
  <2> QED BY <2>3, <2>4 DEF OneAfterAnother
<1>2. ASSUME NEW p \in Passes, Effect(p) PROVE OneAfterAnother'
  BY <1>2, OrderRead, OrderRecord DEF Effect, Ends, Begins, Reads
<1>3. CASE Next
  BY <1>1, <1>2, <1>3, NextMoves DEF Moves
<1>4. CASE UNCHANGED vars
  BY <1>1, <1>4 DEF vars, PassesKept
<1> QED BY <1>2, <1>3, <1>4

LEMMA AlwaysInOrder == Spec => []OneAfterAnother
<1>1. Init => OneAfterAnother
  BY OrderInit
<1>2. OneAfterAnother /\ Typed /\ [Next]_vars => OneAfterAnother'
  BY OrderStep
<1> QED BY <1>1, <1>2, AlwaysTyped, PTL DEF Spec

\* Every ALLOW fits the daily cap together with the ALLOWs of the passes that had
\* ended before its own began, whatever else is in flight: the cap can be overrun by
\* overlapping passes alone.
THEOREM AllowsFit == Spec => []EachAllowFits
<1>1. OneAfterAnother => EachAllowFits
  BY DEF OneAfterAnother
<1> QED BY <1>1, AlwaysInOrder, PTL

\* Of two passes one after the other the later decides a digest again only if its
\* look for the earlier decision failed; other passes may overlap either.
THEOREM DecidedAgainBlindly == Spec => []DecidedAgainOnlyBlind
<1>1. OneAfterAnother => DecidedAgainOnlyBlind
  BY DEF OneAfterAnother
<1> QED BY <1>1, AlwaysInOrder, PTL

=============================================================================
