---------------------------- MODULE StoreProofs ----------------------------
(***************************************************************************)
(* Proofs about the store, for every set of jobs, specs and requests and   *)
(* every bound.                                                            *)
(***************************************************************************)
EXTENDS Store, TLAPS

-----------------------------------------------------------------------------
(***************************************************************************)
(* Facts about sequences and rows.                                         *)
(***************************************************************************)

\* Replacing one element keeps a sequence a sequence, of the same length.
LEMMA SeqExcept ==
    ASSUME NEW S, NEW s \in Seq(S), NEW i \in DOMAIN s, NEW x \in S
    PROVE  /\ [s EXCEPT ![i] = x] \in Seq(S)
           /\ Len([s EXCEPT ![i] = x]) = Len(s)
           /\ DOMAIN [s EXCEPT ![i] = x] = DOMAIN s
OBVIOUS

\* Appending adds the next position and keeps the others.
LEMMA SeqAppend ==
    ASSUME NEW S, NEW s \in Seq(S), NEW x \in S
    PROVE  /\ Append(s, x) \in Seq(S)
           /\ Len(Append(s, x)) = Len(s) + 1
           /\ DOMAIN Append(s, x) = DOMAIN s \cup {Len(s) + 1}
           /\ Len(s) + 1 \notin DOMAIN s
           /\ \A i \in DOMAIN s : Append(s, x)[i] = s[i]
           /\ Append(s, x)[Len(s) + 1] = x
OBVIOUS

\* One more event, legal and leaving from where the log ended, extends a trail.
LEMMA TrailAppend ==
    ASSUME NEW log \in Seq(Event), NEW state, IsTrail(log, state),
           NEW e \in Event, LegalEvent(e), e.from = state
    PROVE  /\ Append(log, e) \in Seq(Event)
           /\ IsTrail(Append(log, e), e.to)
<1> DEFINE more == Append(log, e)
<1>1. /\ more \in Seq(Event) /\ Len(more) = Len(log) + 1
      /\ \A i \in 1..Len(log) : more[i] = log[i]
      /\ more[Len(log) + 1] = e
  OBVIOUS
<1>2. Len(log) \in Nat /\ Len(log) >= 1
  <2>1. Len(log) >= 1  BY Zenon DEF IsTrail
  <2>2. Len(log) \in Nat  OBVIOUS
  <2>3. QED  BY <2>1, <2>2
<1>3. log[1].from = "" /\ log[Len(log)].to = state
  BY Zenon DEF IsTrail
<1>4. \A n \in 1..Len(log) : LegalEvent(log[n])
  BY Zenon DEF IsTrail
<1>5. \A n \in 1..(Len(log) - 1) : log[n + 1].from = log[n].to
  BY Zenon DEF IsTrail
<1> HIDE DEF more
<1>6. more[1].from = ""
  <2>1. 1 \in 1..Len(log)  BY <1>2
  <2>2. more[1] = log[1]  BY <2>1, <1>1
  <2>3. QED  BY <2>2, <1>3
<1>7. \A n \in 1..Len(more) : LegalEvent(more[n])
  <2> TAKE n \in 1..Len(more)
  <2>1. n \in 1..Len(log) \/ n = Len(log) + 1  BY <1>1, <1>2
  <2>2. CASE n \in 1..Len(log)
    <3>1. more[n] = log[n]  BY <2>2, <1>1
    <3>2. QED  BY <3>1, <2>2, <1>4
  <2>3. CASE n = Len(log) + 1
    <3>1. more[n] = e  BY <2>3, <1>1
    <3>2. QED  BY <3>1
  <2>4. QED  BY <2>1, <2>2, <2>3
<1>8. \A n \in 1..(Len(more) - 1) : more[n + 1].from = more[n].to
  <2> TAKE n \in 1..(Len(more) - 1)
  <2>1. n \in 1..(Len(log) - 1) \/ n = Len(log)  BY <1>1, <1>2
  <2>2. CASE n \in 1..(Len(log) - 1)
    <3>1. n \in 1..Len(log) /\ n + 1 \in 1..Len(log)  BY <2>2, <1>2
    <3>2. more[n] = log[n] /\ more[n + 1] = log[n + 1]  BY <3>1, <1>1
    <3>3. QED  BY <3>2, <2>2, <1>5
  <2>3. CASE n = Len(log)
    <3>1. n \in 1..Len(log)  BY <2>3, <1>2
    <3>2. more[n] = log[Len(log)] /\ more[n + 1] = e  BY <3>1, <2>3, <1>1
    <3>3. QED  BY <3>2, <1>3
  <2>4. QED  BY <2>1, <2>2, <2>3
<1>9. Len(more) >= 1 /\ more[Len(more)].to = e.to
  BY <1>1, <1>2
<1>10. QED  BY <1>1, <1>6, <1>7, <1>8, <1>9 DEF IsTrail, more

\* The log a deployment is born with is a trail to the state it is born in.
LEMMA BirthTrail ==
    ASSUME NEW born \in {"detected", "pending_approval", "failed"}, NEW lifted \in BOOLEAN
    PROVE  /\ BirthEvents(born, lifted) \in Seq(Event)
           /\ IsTrail(BirthEvents(born, lifted), born)
<1> DEFINE found == <<[from |-> "", to |-> "detected"]>>
           asked == IF lifted THEN Append(found, [from |-> "detected", to |-> "detected"]) ELSE found
           mark == [from |-> "detected", to |-> "detected"]
           last == [from |-> "detected", to |-> born]
<1>1. found \in Seq(Event) /\ IsTrail(found, "detected")
  <2>1. found \in Seq(Event)
    BY DEF Event, States, ActiveStates
  <2>2. Len(found) = 1
    OBVIOUS
  <2>0. found[1] = [from |-> "", to |-> "detected"]
    OBVIOUS
  <2>3. LegalEvent([from |-> "", to |-> "detected"])
    BY DEF LegalEvent
  <2> HIDE DEF found
  <2>4. \A n \in 1..Len(found) : LegalEvent(found[n])
    <3> TAKE n \in 1..Len(found)
    <3>1. n = 1  BY <2>2
    <3>2. QED  BY <3>1, <2>0, <2>3
  <2>5. \A n \in 1..(Len(found) - 1) : found[n + 1].from = found[n].to
    BY <2>2
  <2>6. found[1].from = "" /\ found[Len(found)].to = "detected"
    <3> DEFINE first == [from |-> "", to |-> "detected"]
    <3>2. first.from = "" /\ first.to = "detected"  OBVIOUS
    <3>1. found[1].from = "" /\ found[1].to = "detected"
      <4> HIDE DEF first
      <4>1. found[1] = first  BY <2>0 DEF first
      <4>2. QED  BY <4>1, <3>2, Zenon
    <3>3. QED  BY <3>1, <2>2, Zenon
  <2>8. Len(found) >= 1
    BY <2>2
  <2>7. QED  BY <2>1, <2>4, <2>5, <2>6, <2>8, Zenon DEF IsTrail
<1>2. /\ mark \in Event /\ LegalEvent(mark) /\ mark.from = "detected" /\ mark.to = "detected"
      /\ last \in Event /\ LegalEvent(last) /\ last.from = "detected" /\ last.to = born
  BY DEF LegalEvent, Event, States, ActiveStates, TerminalStates, canTransition, allowed
<1>3. asked \in Seq(Event) /\ IsTrail(asked, "detected")
  BY <1>1, <1>2, TrailAppend
<1>4. Append(asked, last) \in Seq(Event) /\ IsTrail(Append(asked, last), born)
  BY <1>2, <1>3, TrailAppend
<1>5. QED  BY <1>3, <1>4 DEF BirthEvents

-----------------------------------------------------------------------------
(***************************************************************************)
(* Every write to an existing row replaces one row by a later form of it   *)
(* and logs the move, if there is one.                                     *)
(***************************************************************************)

\* What one write may make of a row.
Later(old, new) ==
    /\ old.job = new.job /\ old.spec = new.spec /\ old.policy = new.policy
    /\ old.diff = new.diff /\ old.planDiff = new.planDiff
    /\ old.retryOf = new.retryOf /\ old.lifted = new.lifted
    /\ old.decided => new.decided
    /\ old.retried => new.retried
    /\ ~IsActive(old.state) =>
          new.state = old.state /\ new.cas = old.cas /\ new.applied = old.applied
    /\ old.applied # 0 => new.cas = old.cas

\* Row id becomes row, and its log says so.
Rewrites(id, row) ==
    /\ id \in Ids /\ row \in Deployment
    /\ Later(Row(id), row)
    /\ deployments' = [deployments EXCEPT ![id] = row]
    /\ \/ events' = events /\ row.state = Row(id).state
       \/ /\ LogEvent(id, Row(id).state, row.state)
          /\ row.state = Row(id).state \/ canTransition(Row(id).state, row.state)

\* Only an active state has anywhere to go.
LEMMA MovesLeaveActive ==
    ASSUME NEW from \in States, NEW to, canTransition(from, to)
    PROVE  IsActive(from) /\ to \in States
BY DEF canTransition, allowed, States, ActiveStates, TerminalStates, IsActive

LEMMA TransitionRewrites ==
    ASSUME StoreTypeOK, NEW id, NEW from, NEW to, NEW by \in BOOLEAN, NEW i \in Nat,
           Transition(id, from, to, by, i)
    PROVE  (\E row : Rewrites(id, row)) /\ lifts' = lifts
<1> DEFINE old == deployments[id]
           row == Moved(old, to, by, i)
<1>1. /\ id \in Ids /\ from \in States /\ canTransition(from, to) /\ old.state = from
      /\ deployments' = [deployments EXCEPT ![id] = row]
      /\ LogEvent(id, from, to) /\ lifts' = lifts
  BY DEF Transition, CanMove, Row
<1>2. old \in Deployment  BY <1>1 DEF StoreTypeOK, Ids
<1>3. IsActive(from) /\ to \in States  BY <1>1, MovesLeaveActive
<1>4. row \in Deployment  BY <1>2, <1>3 DEF Deployment, Moved
<1>5. row.state = to  BY <1>2 DEF Deployment, Moved
<1>6. Later(old, row)  BY <1>1, <1>2, <1>3 DEF Later, Deployment, Moved
<1> HIDE DEF old, row
<1>7. Rewrites(id, row)  BY <1>1, <1>4, <1>5, <1>6 DEF Rewrites, Row, old
<1>8. QED  BY <1>7, <1>1

\* The writes that leave the state alone.
LEMMA SetAppliedRewrites ==
    ASSUME StoreTypeOK, NEW id, NEW i \in Nat, SetApplied(id, i)
    PROVE  (\E row : Rewrites(id, row)) /\ lifts' = lifts
<1> DEFINE row == [Row(id) EXCEPT !.applied = i]
<1>1. /\ id \in Ids /\ Row(id).state = "applying"
      /\ deployments' = [deployments EXCEPT ![id] = row]
      /\ events' = events /\ lifts' = lifts
  BY DEF SetApplied
<1>2. Row(id) \in Deployment  BY <1>1 DEF StoreTypeOK, Ids, Row
<1>3. row \in Deployment /\ row.state = Row(id).state  BY <1>2 DEF Deployment
<1>4. Later(Row(id), row)
  BY <1>1, <1>2 DEF Later, Deployment, IsActive, ActiveStates
<1> HIDE DEF row
<1>5. Rewrites(id, row)  BY <1>1, <1>3, <1>4 DEF Rewrites
<1>6. QED  BY <1>5, <1>1

LEMMA MoveCASIndexRewrites ==
    ASSUME StoreTypeOK, NEW id, NEW in, NEW from, NEW to \in Nat,
           MoveCASIndex(id, in, from, to)
    PROVE  (\E row : Rewrites(id, row)) /\ lifts' = lifts
<1> DEFINE row == [Row(id) EXCEPT !.cas = to]
<1>1. /\ id \in Ids /\ Row(id).state = in /\ Row(id).applied = 0
      /\ in \in {"detected", "pending_approval", "applying"}
      /\ deployments' = [deployments EXCEPT ![id] = row]
      /\ LogEvent(id, in, in) /\ lifts' = lifts
  BY DEF MoveCASIndex
<1>2. Row(id) \in Deployment  BY <1>1 DEF StoreTypeOK, Ids, Row
<1>3. row \in Deployment /\ row.state = Row(id).state  BY <1>2 DEF Deployment
<1>4. Later(Row(id), row)
  BY <1>1, <1>2 DEF Later, Deployment, IsActive, ActiveStates
<1> HIDE DEF row
<1>5. Rewrites(id, row)  BY <1>1, <1>3, <1>4 DEF Rewrites
<1>6. QED  BY <1>5, <1>1

LEMMA MoveAppliedIndexRewrites ==
    ASSUME StoreTypeOK, NEW id, NEW from, NEW to \in Nat, MoveAppliedIndex(id, from, to)
    PROVE  (\E row : Rewrites(id, row)) /\ lifts' = lifts
<1> DEFINE row == [Row(id) EXCEPT !.applied = to]
<1>1. /\ id \in Ids /\ Row(id).state = "applying"
      /\ deployments' = [deployments EXCEPT ![id] = row]
      /\ LogEvent(id, "applying", "applying") /\ lifts' = lifts
  BY DEF MoveAppliedIndex
<1>2. Row(id) \in Deployment  BY <1>1 DEF StoreTypeOK, Ids, Row
<1>3. row \in Deployment /\ row.state = Row(id).state  BY <1>2 DEF Deployment
<1>4. Later(Row(id), row)
  BY <1>1, <1>2 DEF Later, Deployment, IsActive, ActiveStates
<1> HIDE DEF row
<1>5. Rewrites(id, row)  BY <1>1, <1>3, <1>4 DEF Rewrites
<1>6. QED  BY <1>5, <1>1

LEMMA MarkRewrites ==
    ASSUME StoreTypeOK, NEW id,
           \/ MarkRetried(id)
           \/ MarkAwaitingPromotion(id)
           \/ MarkPromoted(id)
           \/ MarkPromotionRequested(id)
    PROVE  (\E row : Rewrites(id, row)) /\ lifts' = lifts
<1>1. id \in Ids
  BY DEF MarkRetried, MarkAwaitingPromotion, MarkPromoted, MarkPromotionRequested
<1>2. Row(id) \in Deployment  BY <1>1 DEF StoreTypeOK, Ids, Row
<1> DEFINE Marks(row) == /\ row \in Deployment /\ Later(Row(id), row)
                         /\ row.state = Row(id).state
                         /\ deployments' = [deployments EXCEPT ![id] = row]
                         /\ LogEvent(id, Row(id).state, Row(id).state)
<1>3. ASSUME MarkRetried(id)
      PROVE  Marks([Row(id) EXCEPT !.retried = TRUE]) /\ lifts' = lifts
  BY <1>2, <1>3 DEF MarkRetried, Deployment, Later
<1>4. ASSUME MarkAwaitingPromotion(id)
      PROVE  Marks([Row(id) EXCEPT !.waited = TRUE]) /\ lifts' = lifts
  BY <1>2, <1>4 DEF MarkAwaitingPromotion, Deployment, Later
<1>5. ASSUME MarkPromoted(id)
      PROVE  Marks([Row(id) EXCEPT !.promoted = TRUE]) /\ lifts' = lifts
  BY <1>2, <1>5 DEF MarkPromoted, Deployment, Later
<1>6. ASSUME MarkPromotionRequested(id)
      PROVE  Marks(Row(id)) /\ lifts' = lifts
  <2>1. deployments' = [deployments EXCEPT ![id] = Row(id)]
    BY <1>6 DEF MarkPromotionRequested, Row, Ids, StoreTypeOK
  <2>2. QED  BY <2>1, <1>2, <1>6 DEF MarkPromotionRequested, Later
<1>7. ASSUME NEW row, Marks(row)  PROVE Rewrites(id, row)
  BY <1>1, <1>7 DEF Rewrites
<1>8. QED  BY <1>3, <1>4, <1>5, <1>6, <1>7

-----------------------------------------------------------------------------
(***************************************************************************)
(* The inductive invariant.  OneActivePerJob needs the types only; the     *)
(* trail of a row needs the state the log ends in, which AuditTrail says.  *)
(***************************************************************************)
StoreInv == StoreTypeOK /\ OneActivePerJob /\ AuditTrail

Progress == \A id \in Ids : id \in DOMAIN deployments' /\ Later(Row(id), deployments'[id])

\* A row stays what it is.
LEMMA LaterSelf == \A row : Later(row, row)
BY DEF Later

LEMMA RewriteKeeps ==
    ASSUME StoreInv, NEW id, NEW row, Rewrites(id, row), lifts' = lifts
    PROVE  StoreInv' /\ Progress
<1>1. /\ id \in DOMAIN deployments /\ row \in Deployment
      /\ deployments \in Seq(Deployment)
      /\ deployments' = [deployments EXCEPT ![id] = row]
  BY DEF Rewrites, StoreInv, StoreTypeOK, Ids
<1>2. /\ deployments' \in Seq(Deployment) /\ Len(deployments') = Len(deployments)
      /\ DOMAIN deployments' = DOMAIN deployments
  BY <1>1, SeqExcept
<1>3. /\ deployments'[id] = row
      /\ \A k \in DOMAIN deployments : k # id => deployments'[k] = deployments[k]
  BY <1>1
<1>4. Later(deployments[id], row)  BY DEF Rewrites, Row
<1>5. Progress
  <2> SUFFICES ASSUME NEW k \in DOMAIN deployments
               PROVE  Later(deployments[k], deployments'[k])
    BY <1>2 DEF Progress, Ids, Row
  <2>1. CASE k = id  BY <2>1, <1>3, <1>4
  <2>2. CASE k # id  BY <2>2, <1>3, LaterSelf
  <2>3. QED  BY <2>1, <2>2
<1>6. DOMAIN events = DOMAIN deployments /\ events \in Seq(Seq(Event))
      /\ Len(events) = Len(deployments) /\ IsTrail(events[id], deployments[id].state)
      /\ events[id] \in Seq(Event)
  <2>1. events \in Seq(Seq(Event)) /\ Len(events) = Len(deployments)
    BY DEF StoreInv, StoreTypeOK
  <2>2. DOMAIN events = DOMAIN deployments  BY <2>1, <1>1
  <2>3. events[id] \in Seq(Event)  BY <2>1, <2>2, <1>1
  <2>4. IsTrail(events[id], deployments[id].state)
    BY <1>1 DEF StoreInv, AuditTrail, Ids, Row
  <2>5. QED  BY <2>1, <2>2, <2>3, <2>4
<1>7. \E log \in Seq(Event) : /\ events' = [events EXCEPT ![id] = log]
                              /\ IsTrail(log, row.state)
  <2>1. CASE events' = events /\ row.state = deployments[id].state
    <3>1. events' = [events EXCEPT ![id] = events[id]]  BY <2>1, <1>6
    <3>2. QED  BY <3>1, <2>1, <1>6
  <2>2. CASE /\ LogEvent(id, deployments[id].state, row.state)
             /\ \/ row.state = deployments[id].state
                \/ canTransition(deployments[id].state, row.state)
    <3> DEFINE e == [from |-> deployments[id].state, to |-> row.state]
    <3>1. deployments[id] \in Deployment  BY <1>1
    <3>2. deployments[id].state \in States /\ row.state \in States
      BY <3>1, <1>1 DEF Deployment
    <3>3. e \in Event  BY <3>2 DEF Event
    <3>4. LegalEvent(e)  BY <3>2, <2>2 DEF LegalEvent
    <3>5. e.from = deployments[id].state /\ e.to = row.state  OBVIOUS
    <3>6. events' = [events EXCEPT ![id] = Append(events[id], e)]
      BY <2>2 DEF LogEvent
    <3> HIDE DEF e
    <3>7. /\ Append(events[id], e) \in Seq(Event)
          /\ IsTrail(Append(events[id], e), row.state)
      BY <3>3, <3>4, <3>5, <1>6, TrailAppend
    <3>8. QED  BY <3>6, <3>7
  <2>3. QED  BY <2>1, <2>2 DEF Rewrites, Row
<1>8. PICK log \in Seq(Event) : /\ events' = [events EXCEPT ![id] = log]
                                /\ IsTrail(log, row.state)
  BY <1>7
<1>9. /\ events' \in Seq(Seq(Event)) /\ Len(events') = Len(events)
      /\ events'[id] = log
      /\ \A k \in DOMAIN deployments : k # id => events'[k] = events[k]
  BY <1>1, <1>6, <1>8, SeqExcept
<1>10. StoreTypeOK'
  BY <1>2, <1>6, <1>9 DEF StoreInv, StoreTypeOK
<1>11. OneActivePerJob'
  <2> SUFFICES ASSUME NEW i \in DOMAIN deployments, NEW k \in DOMAIN deployments,
                      IsActive(deployments'[i].state), IsActive(deployments'[k].state),
                      deployments'[i].job = deployments'[k].job
               PROVE  i = k
    BY <1>2 DEF OneActivePerJob, Ids, Row
  <2>1. Later(deployments[i], deployments'[i]) /\ Later(deployments[k], deployments'[k])
    BY <1>5 DEF Progress, Ids, Row
  <2>2. /\ IsActive(deployments[i].state) /\ IsActive(deployments[k].state)
        /\ deployments[i].job = deployments[k].job
    BY <2>1 DEF Later
  <2>3. QED  BY <2>2 DEF StoreInv, OneActivePerJob, Ids, Row
<1>12. AuditTrail'
  <2> SUFFICES ASSUME NEW k \in DOMAIN deployments
               PROVE  IsTrail(events'[k], deployments'[k].state)
    BY <1>2 DEF AuditTrail, Ids, Row
  <2>1. CASE k = id  BY <2>1, <1>3, <1>8, <1>9
  <2>2. CASE k # id
    <3>1. IsTrail(events[k], deployments[k].state)
      BY DEF StoreInv, AuditTrail, Ids, Row
    <3>2. QED  BY <3>1, <2>2, <1>3, <1>9
  <2>3. QED  BY <2>1, <2>2
<1>13. QED  BY <1>5, <1>10, <1>11, <1>12 DEF StoreInv

LEMMA CreateKeeps ==
    ASSUME StoreInv, NEW r \in Request,
           NEW born \in {"detected", "pending_approval", "failed"},
           CreateDeployment(r, born)
    PROVE  StoreInv' /\ Progress
<1> DEFINE row == NewRow(r, born)
           log == BirthEvents(born, r.lifted)
           new == Len(deployments) + 1
<1>2. /\ row \in Deployment /\ row.state = born /\ row.job = r.job
      /\ r.lifted \in BOOLEAN /\ r.job \in Jobs
  BY DEF Request, NewRow, Deployment, States, ActiveStates, TerminalStates, Policies
<1>3. log \in Seq(Event) /\ IsTrail(log, born)  BY <1>2, BirthTrail
<1>4. /\ deployments \in Seq(Deployment) /\ events \in Seq(Seq(Event))
      /\ Len(events) = Len(deployments) /\ lifts \in [Jobs -> Specs \cup {NoLift}]
  BY DEF StoreInv, StoreTypeOK
<1>5. deployments' = Append(deployments, row) /\ events' = Append(events, log)
  BY DEF CreateDeployment
<1> HIDE DEF row, log
<1>6. /\ deployments' \in Seq(Deployment) /\ Len(deployments') = new
      /\ DOMAIN deployments' = DOMAIN deployments \cup {new}
      /\ new \notin DOMAIN deployments
      /\ \A k \in DOMAIN deployments : deployments'[k] = deployments[k]
      /\ deployments'[new] = row
  BY <1>2, <1>4, <1>5, SeqAppend
<1>7. /\ events' \in Seq(Seq(Event)) /\ Len(events') = new
      /\ \A k \in DOMAIN deployments : events'[k] = events[k]
      /\ events'[new] = log
  <2>1. DOMAIN events = DOMAIN deployments  BY <1>4
  <2>2. QED  BY <2>1, <1>3, <1>4, <1>5, SeqAppend
<1>8. lifts' \in [Jobs -> Specs \cup {NoLift}]
  BY <1>2, <1>4 DEF CreateDeployment
<1>9. StoreTypeOK'  BY <1>6, <1>7, <1>8 DEF StoreTypeOK
<1>10. Progress
  BY <1>6, LaterSelf DEF Progress, Ids, Row
<1>11. OneActivePerJob'
  <2> SUFFICES ASSUME NEW i \in DOMAIN deployments \cup {new},
                      NEW k \in DOMAIN deployments \cup {new},
                      IsActive(deployments'[i].state), IsActive(deployments'[k].state),
                      deployments'[i].job = deployments'[k].job
               PROVE  i = k
    BY <1>6 DEF OneActivePerJob, Ids, Row
  <2>1. ASSUME NEW n \in DOMAIN deployments, IsActive(born),
               IsActive(deployments[n].state), deployments[n].job = r.job
        PROVE  FALSE
    BY <2>1 DEF CreateDeployment, UniqueActive, ActiveOf, ListActive, Ids, Row
  <2>2. CASE i = new /\ k = new  BY <2>2
  <2>3. CASE i = new /\ k # new  BY <2>1, <2>3, <1>2, <1>6
  <2>4. CASE i # new /\ k = new  BY <2>1, <2>4, <1>2, <1>6
  <2>5. CASE i # new /\ k # new
    BY <2>5, <1>6 DEF StoreInv, OneActivePerJob, Ids, Row
  <2>6. QED  BY <2>2, <2>3, <2>4, <2>5
<1>12. AuditTrail'
  <2> SUFFICES ASSUME NEW k \in DOMAIN deployments \cup {new}
               PROVE  IsTrail(events'[k], deployments'[k].state)
    BY <1>6 DEF AuditTrail, Ids, Row
  <2>1. CASE k = new  BY <2>1, <1>2, <1>3, <1>6, <1>7
  <2>2. CASE k # new
    BY <2>2, <1>6, <1>7 DEF StoreInv, AuditTrail, Ids, Row
  <2>3. QED  BY <2>1, <2>2
<1>13. QED  BY <1>9, <1>10, <1>11, <1>12 DEF StoreInv

-----------------------------------------------------------------------------
(***************************************************************************)
(* Initial states and steps.                                               *)
(***************************************************************************)
LEMMA InitHolds == StoreInit => StoreInv
<1> SUFFICES ASSUME StoreInit PROVE StoreInv
  OBVIOUS
<1>1. lifts \in [Jobs -> Specs \cup {NoLift}]
  BY DEF StoreInit
<1>2. CASE deployments = <<>> /\ events = <<>>
  <2>1. DOMAIN deployments = {}  BY <1>2
  <2>2. StoreTypeOK  BY <1>1, <1>2 DEF StoreTypeOK
  <2>3. QED  BY <2>1, <2>2 DEF StoreInv, OneActivePerJob, AuditTrail, Ids
<1>3. CASE \E j \in Jobs, s \in Specs :
             /\ deployments = <<LegacyRow(j, s)>>
             /\ events = <<BirthEvents("detected", FALSE)>>
  <2>1. PICK j \in Jobs, s \in Specs :
              /\ deployments = <<LegacyRow(j, s)>>
              /\ events = <<BirthEvents("detected", FALSE)>>
    BY <1>3
  <2> DEFINE row == LegacyRow(j, s)
             log == BirthEvents("detected", FALSE)
  <2>2. row \in Deployment /\ row.state = "detected"
    BY DEF LegacyRow, NewRow, Deployment, States, ActiveStates, Policies
  <2>3. log \in Seq(Event) /\ IsTrail(log, "detected")
    BY BirthTrail
  <2> HIDE DEF row, log
  <2>4. /\ deployments \in Seq(Deployment) /\ Len(deployments) = 1
        /\ DOMAIN deployments = {1} /\ deployments[1] = row
        /\ events \in Seq(Seq(Event)) /\ Len(events) = 1 /\ events[1] = log
    <3>1. deployments = <<row>> /\ events = <<log>>  BY <2>1 DEF row, log
    <3>2. QED  BY <3>1, <2>2, <2>3
  <2>5. StoreTypeOK  BY <1>1, <2>4 DEF StoreTypeOK
  <2>6. OneActivePerJob  BY <2>4 DEF OneActivePerJob, Ids
  <2>7. AuditTrail  BY <2>2, <2>3, <2>4 DEF AuditTrail, Ids, Row
  <2>8. QED  BY <2>5, <2>6, <2>7 DEF StoreInv
<1>4. QED  BY <1>2, <1>3 DEF StoreInit

LEMMA MoveSteps ==
    ASSUME StoreInv, Move PROVE StoreInv' /\ Progress
<1>1. PICK id \in Ids, from \in States, to \in States, by \in BOOLEAN, i \in Indexes :
             Transition(id, from, to, by, i)
  BY DEF Move
<1>2. i \in Nat  BY StoreAssumption DEF Indexes
<1>3. (\E row : Rewrites(id, row)) /\ lifts' = lifts
  BY <1>1, <1>2, TransitionRewrites DEF StoreInv
<1>4. QED  BY <1>3, RewriteKeeps

LEMMA MarkSteps ==
    ASSUME StoreInv, Mark PROVE StoreInv' /\ Progress
<1>0. Indexes \subseteq Nat  BY StoreAssumption DEF Indexes
<1>1. ASSUME NEW id, \E row : Rewrites(id, row), lifts' = lifts
      PROVE  StoreInv' /\ Progress
  BY <1>1, RewriteKeeps
<1>2. PICK id \in Ids :
        \/ \E in \in States, from, to \in Indexes : MoveCASIndex(id, in, from, to)
        \/ \E from, to \in Indexes : MoveAppliedIndex(id, from, to)
        \/ MarkRetried(id)
        \/ MarkAwaitingPromotion(id)
        \/ MarkPromoted(id)
        \/ MarkPromotionRequested(id)
  BY DEF Mark
<1>3. CASE \E in \in States, from, to \in Indexes : MoveCASIndex(id, in, from, to)
  BY <1>0, <1>1, <1>3, MoveCASIndexRewrites DEF StoreInv
<1>4. CASE \E from, to \in Indexes : MoveAppliedIndex(id, from, to)
  BY <1>0, <1>1, <1>4, MoveAppliedIndexRewrites DEF StoreInv
<1>5. CASE MarkRetried(id) \/ MarkAwaitingPromotion(id)
           \/ MarkPromoted(id) \/ MarkPromotionRequested(id)
  BY <1>1, <1>5, MarkRewrites DEF StoreInv
<1>6. QED  BY <1>2, <1>3, <1>4, <1>5

\* The steps that touch the table of Deploy now requests only, and no step.
LEMMA RowsUntouched ==
    ASSUME StoreInv, UNCHANGED <<deployments, events>>,
           lifts' \in [Jobs -> Specs \cup {NoLift}]
    PROVE  StoreInv' /\ Progress
<1>1. StoreTypeOK' /\ OneActivePerJob' /\ AuditTrail'
  BY DEF StoreInv, StoreTypeOK, OneActivePerJob, AuditTrail, Ids, Row
<1>2. Progress  BY LaterSelf DEF Progress, Ids, Row
<1>3. QED  BY <1>1, <1>2 DEF StoreInv

LEMMA StepKeeps ==
    ASSUME StoreInv, [StoreNext]_storeVars PROVE StoreInv' /\ Progress
<1>0. lifts \in [Jobs -> Specs \cup {NoLift}]  BY DEF StoreInv, StoreTypeOK
<1>1. CASE Create
  BY <1>1, StoreAssumption, CreateKeeps DEF Create
<1>2. CASE Move  BY <1>2, MoveSteps
<1>3. CASE Mark  BY <1>3, MarkSteps
<1>4. CASE \E id \in Ids, i \in Indexes : SetApplied(id, i)
  <2>1. PICK id \in Ids, i \in Indexes : SetApplied(id, i)  BY <1>4
  <2>2. i \in Nat  BY StoreAssumption DEF Indexes
  <2>3. (\E row : Rewrites(id, row)) /\ lifts' = lifts
    BY <2>1, <2>2, SetAppliedRewrites DEF StoreInv
  <2>4. QED  BY <2>3, RewriteKeeps
<1>5. CASE \E j \in Jobs, s \in Specs : RequestWindowLift(j, s)
  BY <1>0, <1>5, RowsUntouched DEF RequestWindowLift
<1>6. CASE \E j \in Jobs : DropWindowLift(j)
  BY <1>0, <1>6, RowsUntouched DEF DropWindowLift
<1>7. CASE UNCHANGED storeVars
  BY <1>0, <1>7, RowsUntouched DEF storeVars
<1>8. QED  BY <1>1, <1>2, <1>3, <1>4, <1>5, <1>6, <1>7 DEF StoreNext

-----------------------------------------------------------------------------
(***************************************************************************)
(* The store implements Attempts.                                          *)
(***************************************************************************)

\* No write, or a write of one row.
Wrote == deployments' = deployments \/ \E id, row : Rewrites(id, row)

LEMMA PhasesAre ==
    ASSUME NEW from \in States, NEW to, to = from \/ canTransition(from, to)
    PROVE  \/ PhaseOf(to) = PhaseOf(from)
           \/ PhaseOf(from) = "waiting" /\ PhaseOf(to) \in {"running", "dropped"}
           \/ PhaseOf(from) \in {"waiting", "running"} /\ PhaseOf(to) = "finished"
BY DEF PhaseOf, canTransition, allowed, States, ActiveStates, TerminalStates

\* An attempt that is not over is that of a row that holds the lock.
LEMMA OverIs ==
    ASSUME NEW state \in States
    PROVE  Abstract!Over(PhaseOf(state)) <=> ~IsActive(state)
BY DEF Abstract!Over, PhaseOf, IsActive, States, ActiveStates, TerminalStates

\* A row as an attempt.
Seen(row) == [job |-> row.job, phase |-> PhaseOf(row.state)]

LEMMA WroteIsAttempt ==
    ASSUME StoreInv, Wrote
    PROVE  [Abstract!Next]_attemptsOf
<1>1. CASE deployments' = deployments
  BY <1>1 DEF attemptsOf, Ids, Row
<1>2. CASE \E id, row : Rewrites(id, row)
  <2>1. PICK id, row : Rewrites(id, row)
    BY <1>2
  <2> DEFINE old == Row(id)
             to == PhaseOf(row.state)
  <2>2. /\ id \in Ids /\ row.job = old.job /\ old.state \in States
        /\ deployments' = [deployments EXCEPT ![id] = row]
        /\ row.state = old.state \/ canTransition(old.state, row.state)
    <3>1. /\ id \in Ids /\ Later(old, row) /\ deployments' = [deployments EXCEPT ![id] = row]
          /\ row.state = old.state \/ canTransition(old.state, row.state)
      BY <2>1 DEF Rewrites
    <3>2. old \in Deployment
      BY <3>1 DEF StoreInv, StoreTypeOK, Ids, Row
    <3>3. old.state \in States
      BY <3>2 DEF Deployment
    <3> QED BY <3>1, <3>3 DEF Later
  <2>3. /\ DOMAIN deployments' = Ids /\ deployments'[id] = row
        /\ \A k \in Ids : k # id => deployments'[k] = deployments[k]
    BY <2>2 DEF Ids
  <2>4. /\ attemptsOf = [k \in Ids |-> Seen(deployments[k])]
        /\ attemptsOf' = [k \in Ids |-> Seen(deployments'[k])]
    BY <2>3 DEF attemptsOf, Seen, Ids, Row
  <2>5. Seen(row) = [Seen(old) EXCEPT !.phase = to]
    BY <2>2 DEF Seen
  <2>6. attemptsOf' = [attemptsOf EXCEPT ![id].phase = to]
    BY <2>2, <2>3, <2>4, <2>5 DEF Row
  <2>7. /\ Abstract!Become(id, to) /\ id \in DOMAIN attemptsOf
        /\ attemptsOf[id].phase = PhaseOf(old.state)
    BY <2>2, <2>4, <2>6 DEF Abstract!Become, Seen, Row
  <2>8. CASE to = PhaseOf(old.state)
    <3>1. Seen(row) = Seen(old)
      BY <2>2, <2>8 DEF Seen
    <3>2. attemptsOf' = attemptsOf
      BY <2>2, <2>3, <2>4, <3>1 DEF Row
    <3> QED BY <3>2
  <2> HIDE DEF to
  <2>9. CASE PhaseOf(old.state) = "waiting" /\ to \in {"running", "dropped"}
    BY <2>7, <2>9 DEF Abstract!Next, Abstract!Run, Abstract!Drop
  <2>10. CASE PhaseOf(old.state) \in {"waiting", "running"} /\ to = "finished"
    BY <2>7, <2>10 DEF Abstract!Next, Abstract!Finish
  <2> QED BY <2>2, <2>8, <2>9, <2>10, PhasesAre DEF to
<1> QED BY <1>1, <1>2 DEF Wrote

\* The partial unique index is what makes a new row an attempt that takes a free job.
LEMMA CreateIsAttempt ==
    ASSUME StoreInv, NEW r \in Request, NEW born \in {"detected", "pending_approval", "failed"},
           CreateDeployment(r, born)
    PROVE  [Abstract!Next]_attemptsOf
<1> DEFINE row == NewRow(r, born)
           n == Len(deployments)
<1>1. /\ deployments \in Seq(Deployment) /\ n \in Nat /\ Ids = 1..n
      /\ \A id \in Ids : Row(id).state \in States
  <2>1. deployments \in Seq(Deployment)
    BY DEF StoreInv, StoreTypeOK
  <2>2. \A id \in Ids : Row(id) \in Deployment
    BY <2>1 DEF Ids, Row
  <2> QED BY <2>1, <2>2 DEF Ids, Deployment
<1>2. /\ row \in Deployment /\ row.job = r.job /\ row.state = born /\ r.job \in Jobs
  BY DEF NewRow, Deployment, Request, States, ActiveStates, TerminalStates
<1>3. deployments' = Append(deployments, row) /\ UniqueActive(r.job, born)
  BY DEF CreateDeployment
<1> HIDE DEF row
<1>4. /\ DOMAIN deployments' = 1..(n + 1) /\ deployments'[n + 1] = row
      /\ \A k \in 1..n : deployments'[k] = deployments[k]
  BY <1>1, <1>2, <1>3, SeqAppend DEF Ids
<1> HIDE DEF n
<1>5. /\ attemptsOf = [k \in 1..n |-> Seen(deployments[k])]
      /\ attemptsOf' = [k \in 1..(n + 1) |-> Seen(deployments'[k])]
  BY <1>1, <1>4 DEF attemptsOf, Seen, Ids, Row
<1>6. attemptsOf' = Append(attemptsOf, Seen(row))
  <2> DEFINE S == {Seen(deployments[k]) : k \in 1..n} \cup {Seen(row)}
  <2>1. attemptsOf \in Seq(S) /\ Seen(row) \in S /\ Len(attemptsOf) = n
    BY <1>1, <1>5
  <2> HIDE DEF S
  <2>2. Append(attemptsOf, Seen(row)) = [k \in 1..(n + 1) |-> Append(attemptsOf, Seen(row))[k]]
    <3> DEFINE more == Append(attemptsOf, Seen(row))
    <3>1. more \in Seq(S) /\ Len(more) = n + 1
      BY <2>1, SeqAppend
    <3> HIDE DEF more
    <3>2. more \in [1..(n + 1) -> S]
      BY <1>1, <3>1
    <3>3. more = [k \in 1..(n + 1) |-> more[k]]
      BY <3>2
    <3> QED BY <3>3 DEF more
  <2>3. ASSUME NEW k \in 1..(n + 1)
        PROVE  Seen(deployments'[k]) = Append(attemptsOf, Seen(row))[k]
    <3>1. CASE k = n + 1
      BY <1>4, <2>1, <3>1, SeqAppend
    <3>2. CASE k # n + 1
      <4>1. k \in 1..n /\ k \in DOMAIN attemptsOf
        BY <1>1, <1>5, <3>2
      <4>2. Append(attemptsOf, Seen(row))[k] = attemptsOf[k]
        BY <2>1, <4>1, SeqAppend
      <4> QED BY <1>4, <1>5, <4>1, <4>2
    <3> QED BY <3>1, <3>2
  <2> QED BY <1>5, <2>2, <2>3
<1>7. CASE born = "failed"
  <2>1. Seen(row) = [job |-> r.job, phase |-> "finished"]
    BY <1>2, <1>7 DEF Seen, PhaseOf
  <2> QED BY <1>2, <1>6, <2>1 DEF Abstract!Next, Abstract!BeginOver
<1>8. CASE born \in {"detected", "pending_approval"}
  <2>1. Seen(row) = [job |-> r.job, phase |-> "waiting"]
    BY <1>2, <1>8 DEF Seen, PhaseOf
  <2>2. \A id \in Ids : Row(id).job = r.job => ~IsActive(Row(id).state)
    BY <1>3, <1>8 DEF UniqueActive, IsActive, ActiveStates, ActiveOf, ListActive
  <2>3. Abstract!Free(r.job)
    <3> SUFFICES ASSUME NEW i \in DOMAIN attemptsOf, attemptsOf[i].job = r.job
                 PROVE  Abstract!Over(attemptsOf[i].phase)
      BY DEF Abstract!Free
    <3>1. i \in Ids /\ attemptsOf[i] = Seen(Row(i))
      BY <1>1, <1>5 DEF Row
    <3>2. Row(i).job = r.job /\ attemptsOf[i].phase = PhaseOf(Row(i).state)
      BY <3>1 DEF Seen
    <3> QED BY <1>1, <2>2, <3>1, <3>2, OverIs
  <2> QED BY <1>2, <1>6, <2>1, <2>3 DEF Abstract!Next, Abstract!Begin
<1> QED BY <1>7, <1>8

LEMMA InitIsAttempt == StoreInit => Abstract!Init
<1> SUFFICES ASSUME StoreInit PROVE Abstract!Init
  OBVIOUS
<1>1. CASE deployments = <<>>
  <2>1. Ids = {}
    BY <1>1 DEF Ids
  <2>2. attemptsOf = <<>>
    BY <2>1 DEF attemptsOf
  <2> QED BY <2>2 DEF Abstract!Init
<1>2. ASSUME NEW j \in Jobs, NEW s \in Specs, deployments = <<LegacyRow(j, s)>>
      PROVE  Abstract!Init
  <2> DEFINE row == LegacyRow(j, s)
  <2>1. row.job = j /\ PhaseOf(row.state) = "waiting"
    BY DEF LegacyRow, NewRow, PhaseOf
  <2> HIDE DEF row
  <2>2. deployments = <<row>>
    BY <1>2 DEF row
  <2>3. Ids = {1} /\ Row(1) = row
    BY <2>2 DEF Ids, Row
  <2>4. attemptsOf = <<[job |-> j, phase |-> "waiting"]>>
    BY <2>1, <2>3 DEF attemptsOf
  <2> QED BY <2>4 DEF Abstract!Init
<1> QED BY <1>1, <1>2 DEF StoreInit

\* Every call of the store, one at a time, is a step of Attempts or none.
LEMMA StepIsAttempt ==
    ASSUME StoreInv, [StoreNext]_storeVars
    PROVE  [Abstract!Next]_attemptsOf
<1>0. Indexes \subseteq Nat  BY StoreAssumption DEF Indexes
<1>1. CASE Create
  BY <1>1, StoreAssumption, CreateIsAttempt DEF Create
<1>2. CASE Move
  BY <1>0, <1>2, TransitionRewrites, WroteIsAttempt DEF Move, Wrote, StoreInv
<1>3. CASE Mark
  <2>1. \E id, row : Rewrites(id, row)
    BY <1>0, <1>3, MoveCASIndexRewrites, MoveAppliedIndexRewrites, MarkRewrites DEF Mark, StoreInv
  <2> QED BY <2>1, WroteIsAttempt DEF Wrote
<1>4. CASE \E id \in Ids, i \in Indexes : SetApplied(id, i)
  BY <1>0, <1>4, SetAppliedRewrites, WroteIsAttempt DEF Wrote, StoreInv
<1>5. CASE deployments' = deployments
  BY <1>5, WroteIsAttempt DEF Wrote
<1> QED BY <1>1, <1>2, <1>3, <1>4, <1>5 DEF StoreNext, RequestWindowLift, DropWindowLift, storeVars

-----------------------------------------------------------------------------
(***************************************************************************)
(* Theorems.                                                               *)
(***************************************************************************)

\* The inductive invariant holds in every state of the store.
THEOREM StoreInvariant == StoreSpec => []StoreInv
<1>1. StoreInv /\ [StoreNext]_storeVars => StoreInv'
  BY StepKeeps
<1>2. QED  BY <1>1, InitHolds, PTL DEF StoreSpec

\* Every row and event keeps the shape the schema gives it, whatever is called.
THEOREM StoreTypes == StoreSpec => []StoreTypeOK
<1>1. StoreInv => StoreTypeOK  BY DEF StoreInv
<1>2. QED  BY <1>1, StoreInvariant, PTL

\* Invariant 6 of docs/philosophy.md, for every number of jobs and deployments:
\* the partial unique index and the transition table keep the per-job lock.
THEOREM Serialized == StoreSpec => []OneActivePerJob
<1>1. StoreInv => OneActivePerJob  BY DEF StoreInv
<1>2. QED  BY <1>1, StoreInvariant, PTL

\* The events of a deployment replay to its row, for every history of calls.
THEOREM Audited == StoreSpec => []AuditTrail
<1>1. StoreInv => AuditTrail  BY DEF StoreInv
<1>2. QED  BY <1>1, StoreInvariant, PTL

\* No write takes back a decision, revives an ended deployment or rewrites what
\* was approved.
THEOREM OnlyProgress == StoreSpec => RowsOnlyProgress
<1> DEFINE P == \A id \in Ids :
          /\ id \in DOMAIN deployments'
          /\ LET old == Row(id)
                 new == deployments'[id]
             IN  /\ \A f \in {"job", "spec", "policy", "diff", "planDiff", "retryOf", "lifted"} :
                        new[f] = old[f]
                 /\ old.decided => new.decided
                 /\ old.retried => new.retried
                 /\ ~IsActive(old.state) =>
                        new.state = old.state /\ new.cas = old.cas /\ new.applied = old.applied
<1>1. ASSUME NEW old, NEW new, Later(old, new)
      PROVE  \A f \in {"job", "spec", "policy", "diff", "planDiff", "retryOf", "lifted"} :
                 new[f] = old[f]
  BY <1>1 DEF Later
<1>2. Progress => P
  BY <1>1 DEF Progress, Later
<1>3. StoreInv /\ [StoreNext]_storeVars => [P]_storeVars
  BY <1>2, StepKeeps
<1>4. QED  BY <1>3, StoreInvariant, PTL DEF StoreSpec, RowsOnlyProgress

\* The CAS index of a register on record is never rewritten.
THEOREM CASFixed == StoreSpec => CASFixedOnceApplied
<1> DEFINE P == \A id \in Ids : Row(id).applied # 0 => deployments'[id].cas = Row(id).cas
<1>1. Progress => P  BY DEF Progress, Later
<1>2. StoreInv /\ [StoreNext]_storeVars => [P]_storeVars
  BY <1>1, StepKeeps
<1>3. QED  BY <1>2, StoreInvariant, PTL DEF StoreSpec, CASFixedOnceApplied

\* The store keeps the promise of docs/deployment-lifecycle.md: whatever is called, the
\* rows seen through their phases are attempts, one per job that is not over, and a
\* started one is never dropped.
THEOREM RowsAreAttempts == StoreSpec => ImplementsAttempts
<1>1. StoreInv /\ [StoreNext]_storeVars => [Abstract!Next]_attemptsOf
  BY StepIsAttempt
<1>2. QED
  BY <1>1, InitIsAttempt, StoreInvariant, PTL DEF StoreSpec, ImplementsAttempts, Abstract!Spec

=============================================================================
