------------------------ MODULE AccessControlProofs ------------------------
(***************************************************************************)
(* Proofs about AccessControl, for every number of servers, threads, users *)
(* and addresses, every threshold, duration and bound.                     *)
(***************************************************************************)
EXTENDS AccessControl, FiniteSetTheorems, TLAPS

-----------------------------------------------------------------------------
\* Types, and what the other invariants need to know about every state.

\* Restrictions are finitely many, and each has an id of its own.
Ids ==
    \A n \in Nodes :
        /\ IsFiniteSet(rows[n])
        /\ \A r \in rows[n] : r.id < made[n]
        /\ \A r, s \in rows[n] : r.id = s.id => r = s

\* A request is about an alert or a restriction that exists or once did.
Known == \A t \in Threads :
    /\ call[t].pc = "announce" => call[t].alert \in DOMAIN alerts[Server[t]]
    /\ call[t].pc = "delete" => call[t].row < made[Server[t]]

\* An event lifts a restriction or resolves an alert, and a pass looks at spikes.
Sent ==
    /\ \A e \in events : e.alert # None => e.lifts = None /\ e.alert.resolved
    /\ \A n \in Nodes : \A g \in todo[n] : g.kind = Spike

TInv == TypeOK /\ Ids /\ Known /\ Sent

-----------------------------------------------------------------------------
LEMMA Constants ==
    /\ Threshold \in Nat /\ SpikeTime \in Nat /\ Duration \in Nat /\ MaxTime \in Nat
    /\ MaxRequests \in Nat
    /\ None \notin Users /\ None \notin Addresses /\ None \notin Nodes
    /\ Spike \in Kinds /\ Others \subseteq Groups /\ (\A g \in Others : g.kind # Spike)
    /\ \A t \in Threads : Server[t] \in Nodes
BY TimeAssumption, NoneAssumption, OthersAssumption, ServerAssumption DEF Kinds

\* The failures in the log of server n with address a and user name u.
Logged(n, a, u) ==
    {i \in DOMAIN log[n] : log[n][i].addr = a /\ log[n][i].user = u}

LEMMA PositionsFinite ==
    ASSUME NEW X, NEW s \in Seq(X), NEW p \in SUBSET (DOMAIN s)
    PROVE  IsFiniteSet(p) /\ Cardinality(p) \in Nat
<1>1. DOMAIN s = 1 .. Len(s) /\ Len(s) \in Nat
  OBVIOUS
<1>2. IsFiniteSet(1 .. Len(s))
  BY <1>1, FS_Interval
<1> QED BY <1>1, <1>2, FS_Subset, FS_CardinalityType

LEMMA LoggedFinite ==
    ASSUME TypeOK, NEW n \in Nodes, NEW a, NEW u
    PROVE  IsFiniteSet(Logged(n, a, u)) /\ Cardinality(Logged(n, a, u)) \in Nat
BY PositionsFinite DEF TypeOK, Logged

\* Only some of them count as recent.
LEMMA CountLogged ==
    ASSUME TypeOK, NEW n \in Nodes, NEW a, NEW u
    PROVE  Count(n, a, u) \in Nat /\ Count(n, a, u) <= Cardinality(Logged(n, a, u))
<1> DEFINE recent == {i \in DOMAIN log[n] : /\ log[n][i].addr = a /\ log[n][i].user = u
                                            /\ log[n][i].at + SpikeTime >= now}
<1>1. recent \in SUBSET Logged(n, a, u)
  BY DEF Logged
<1>2. Count(n, a, u) = Cardinality(recent)
  BY DEF Count
<1> HIDE DEF recent
<1>3. IsFiniteSet(recent) /\ Cardinality(recent) <= Cardinality(Logged(n, a, u))
  BY <1>1, LoggedFinite, FS_Subset
<1> QED BY <1>2, <1>3, FS_CardinalityType

\* What a pass finds are groups, about spikes that the log has.
LEMMA SpikeGroups ==
    ASSUME TypeOK, NEW n \in Nodes, NEW g \in Spikes(n)
    PROVE  /\ g \in Groups /\ g.kind = Spike
           /\ \E a \in Addresses : Cardinality(Logged(n, a, g.user)) > Threshold
<1>1. PICK a \in Addresses, u \in Users \cup {None} :
          g = Group(Spike, a, u, Count(n, a, u)) /\ g.count > Threshold
  BY DEF Spikes, FailureGroups
<1>2. g = [kind |-> Spike, addr |-> a, user |-> u, count |-> Count(n, a, u)]
  BY <1>1 DEF Group
<1>3. Count(n, a, u) \in Nat /\ Count(n, a, u) <= Cardinality(Logged(n, a, u))
      /\ Cardinality(Logged(n, a, u)) \in Nat
  BY CountLogged, LoggedFinite
<1> QED BY <1>1, <1>2, <1>3, Constants DEF Groups

\* The running suspensions of a user among finitely many rows.
LEMMA RunningType ==
    ASSUME NEW s, IsFiniteSet(s), NEW u
    PROVE  Running(s, u) \in Nat /\ Running(s, u) <= Cardinality(s) /\ Cardinality(s) \in Nat
<1> DEFINE r == {x \in s : x.user = u /\ x.until > now}
<1>1. r \in SUBSET s /\ Running(s, u) = Cardinality(r)
  BY DEF Running
<1> QED BY <1>1, FS_Subset, FS_CardinalityType

\* A new alert.
LEMMA AlertType ==
    ASSUME TypeOK, NEW n \in Nodes, NEW g \in Groups, Alert(n, g)
    PROVE  /\ alerts' \in [Nodes -> Seq(Alerts)]
           /\ alerts'[n] = Append(alerts[n], [group |-> g, created |-> now, resolved |-> FALSE])
           /\ \A m \in Nodes : m # n => alerts'[m] = alerts[m]
           /\ \A m \in Nodes : DOMAIN alerts[m] \subseteq DOMAIN alerts'[m]
<1>1. [group |-> g, created |-> now, resolved |-> FALSE] \in Alerts
  BY DEF TypeOK, Alerts
<1>2. Append(alerts[n], [group |-> g, created |-> now, resolved |-> FALSE]) \in Seq(Alerts)
  BY <1>1 DEF TypeOK
<1>3. /\ alerts' \in [Nodes -> Seq(Alerts)]
      /\ alerts'[n] = Append(alerts[n], [group |-> g, created |-> now, resolved |-> FALSE])
      /\ \A m \in Nodes : m # n => alerts'[m] = alerts[m]
  BY <1>2 DEF Alert, TypeOK
<1>4. alerts[n] \in Seq(Alerts)
  BY DEF TypeOK
<1>5. DOMAIN alerts[n] \subseteq DOMAIN alerts'[n]
  BY <1>1, <1>3, <1>4
<1> QED BY <1>3, <1>5

\* Rows that are removed.
LEMMA RemoveType ==
    ASSUME TInv, NEW n \in Nodes, NEW s \in SUBSET rows[n], Remove(n, s)
    PROVE  /\ rows' \in [Nodes -> SUBSET Rows]
           /\ rows'[n] = rows[n] \ s
           /\ \A m \in Nodes : m # n => rows'[m] = rows[m] /\ freed'[m] = freed[m]
           /\ \A m \in Nodes : rows'[m] \subseteq rows[m] /\ IsFiniteSet(rows'[m])
           /\ freed' \in [Nodes -> [Users -> Nat]]
           /\ \A u \in Users : freed'[n][u] = freed[n][u] + Running(s, u)
<1>1. rows' = [rows EXCEPT ![n] = rows[n] \ s]
      /\ freed' = [freed EXCEPT ![n] = [u \in Users |-> freed[n][u] + Running(s, u)]]
  <2>1. rows[n] \cap s = s
    OBVIOUS
  <2> QED BY <2>1 DEF Remove
<1>2. IsFiniteSet(s)
  BY FS_Subset DEF TInv, Ids
<1>3. \A u \in Users : Running(s, u) \in Nat
  BY <1>2, RunningType
<1>4. \A m \in Nodes : rows'[m] \in SUBSET rows[m] /\ IsFiniteSet(rows[m])
  BY <1>1 DEF TInv, TypeOK, Ids
<1>5. \A m \in Nodes : IsFiniteSet(rows'[m])
  BY <1>4, FS_Subset
<1>6. [u \in Users |-> freed[n][u] + Running(s, u)] \in [Users -> Nat]
  BY <1>3 DEF TInv, TypeOK
<1> QED BY <1>1, <1>3, <1>4, <1>5, <1>6 DEF TInv, TypeOK

-----------------------------------------------------------------------------
\* TInv is inductive.

LEMMA InitTInv == Init => TInv
<1> SUFFICES ASSUME Init PROVE TInv
  OBVIOUS
<1> USE DEF Init
<1>1. Idle \in Calls /\ <<>> \in Seq(Failures) /\ <<>> \in Seq(Alerts)
  BY DEF Idle, Calls
<1>2. TypeOK
  BY <1>1 DEF TypeOK
<1>3. Ids /\ Known /\ Sent
  BY FS_EmptySet DEF Ids, Known, Sent, Idle
<1> QED BY <1>2, <1>3 DEF TInv

\* The table of alerts only grows, and the ids of restrictions only go up.
Grows ==
    \A n \in Nodes : DOMAIN alerts[n] \subseteq DOMAIN alerts'[n] /\ made[n] <= made'[n]

LEMMA KnownStep ==
    ASSUME TInv, Grows, made' \in [Nodes -> Nat],
           \A t \in Threads : call'[t] = call[t] \/ call'[t] = Idle
    PROVE  Known'
<1> SUFFICES ASSUME NEW t \in Threads
             PROVE  /\ call'[t].pc = "announce" => call'[t].alert \in DOMAIN alerts'[Server[t]]
                    /\ call'[t].pc = "delete" => call'[t].row < made'[Server[t]]
  BY DEF Known
<1>1. Server[t] \in Nodes /\ call[t].row \in Nat /\ made[Server[t]] \in Nat /\ made'[Server[t]] \in Nat
  BY Constants DEF TInv, TypeOK, Calls
<1> QED BY <1>1 DEF TInv, Known, Grows, Idle

LEMMA LogStep ==
    ASSUME TInv, NEW n \in Nodes, NEW a \in Addresses, NEW u \in Users \cup {None},
           LogFailure(n, a, u)
    PROVE  TInv'
<1> DEFINE failure == [addr |-> a, user |-> u, at |-> now]
<1>1. /\ log' = [log EXCEPT ![n] = Append(log[n], failure)]
      /\ UNCHANGED <<now, alerts, rows, made, todo, call, events, requests, lifted, freed>>
  BY DEF LogFailure
<1>2. failure \in Failures
  BY DEF TInv, TypeOK, Failures
<1> HIDE DEF failure
<1>3. Append(log[n], failure) \in Seq(Failures)
  BY <1>2 DEF TInv, TypeOK
<1>4. TypeOK'
  BY <1>1, <1>3 DEF TInv, TypeOK
<1> QED BY <1>1, <1>4 DEF TInv, Ids, Known, Sent

\* A pass starts, fails, or ends with the server.
LEMMA PassStep ==
    ASSUME TInv, NEW n \in Nodes, StartPass(n) \/ FailPass(n) \/ Crash(n)
    PROVE  TInv'
<1>1. /\ \E s \in {Spikes(n), {}} : todo' = [todo EXCEPT ![n] = s]
      /\ UNCHANGED <<now, log, alerts, rows, made, events, requests, lifted, freed>>
      /\ call' = call \/ call' = [t \in Threads |-> IF Server[t] = n THEN Idle ELSE call[t]]
  BY DEF StartPass, FailPass, Crash
<1>2. \A s \in {Spikes(n), {}} : s \in SUBSET Groups /\ \A g \in s : g.kind = Spike
  BY SpikeGroups DEF TInv
<1>3. Idle \in Calls
  BY DEF Idle, Calls
<1>4. TypeOK'
  BY <1>1, <1>2, <1>3 DEF TInv, TypeOK
<1>5. Known'
  <2>1. \A t \in Threads : call'[t] = call[t] \/ call'[t] = Idle
    BY <1>1
  <2>2. Grows
    BY <1>1 DEF Grows, TInv, TypeOK
  <2> QED BY <1>1, <2>1, <2>2, KnownStep DEF TInv, TypeOK
<1>6. Sent'
  BY <1>1, <1>2 DEF TInv, TypeOK, Sent
<1> QED BY <1>1, <1>4, <1>5, <1>6 DEF TInv, Ids

LEMMA JudgeStep ==
    ASSUME TInv, NEW n \in Nodes, NEW g \in todo[n], Judge(n, g)
    PROVE  TInv'
<1> DEFINE new == [id |-> made[n], user |-> g.user, until |-> now + Duration]
<1>1. /\ g \in Groups
      /\ todo' = [todo EXCEPT ![n] = todo[n] \ {g}]
      /\ alerts' = alerts \/ Alert(n, g)
      /\ \/ UNCHANGED <<rows, made>>
         \/ /\ rows' = [rows EXCEPT ![n] = rows[n] \cup {new}]
            /\ made' = [made EXCEPT ![n] = made[n] + 1]
            /\ g.user # None
      /\ UNCHANGED <<now, log, call, events, requests, lifted, freed>>
  BY DEF Judge, Suspend, TInv, TypeOK
<1>2. g.user # None => new \in Rows /\ new.id = made[n]
  BY <1>1, Constants DEF TInv, TypeOK, Groups, Rows
<1> HIDE DEF new
<1>3. /\ alerts' \in [Nodes -> Seq(Alerts)]
      /\ \A m \in Nodes : DOMAIN alerts[m] \subseteq DOMAIN alerts'[m]
  BY <1>1, AlertType DEF TInv, TypeOK
<1>4. TypeOK'
  <2>1. rows' \in [Nodes -> SUBSET Rows] /\ made' \in [Nodes -> Nat]
    <3>1. rows \in [Nodes -> SUBSET Rows] /\ made \in [Nodes -> Nat] /\ made[n] + 1 \in Nat
      BY DEF TInv, TypeOK
    <3>2. g.user # None => rows[n] \cup {new} \in SUBSET Rows
      BY <1>2, <3>1
    <3> QED BY <1>1, <3>1, <3>2
  <2>2. todo' \in [Nodes -> SUBSET Groups]
    BY <1>1 DEF TInv, TypeOK
  <2> QED BY <1>1, <1>3, <2>1, <2>2 DEF TInv, TypeOK
<1>5. Ids'
  <2>1. CASE UNCHANGED <<rows, made>>
    BY <2>1 DEF TInv, Ids
  <2>2. CASE /\ rows' = [rows EXCEPT ![n] = rows[n] \cup {new}]
             /\ made' = [made EXCEPT ![n] = made[n] + 1]
             /\ g.user # None
    <3>1. \A m \in Nodes : /\ rows'[m] = IF m = n THEN rows[n] \cup {new} ELSE rows[m]
                           /\ made'[m] = IF m = n THEN made[n] + 1 ELSE made[m]
      BY <2>2 DEF TInv, TypeOK
    <3>2. \A m \in Nodes : IsFiniteSet(rows'[m])
      BY <3>1, FS_AddElement DEF TInv, Ids
    <3>3. \A m \in Nodes : \A r \in rows[m] : r.id \in Nat /\ r.id < made[m] /\ made[m] \in Nat
      BY DEF TInv, TypeOK, Ids, Rows
    <3>4. made[n] \in Nat /\ new.id = made[n]
      BY <1>2, <2>2 DEF TInv, TypeOK
    <3>5. \A m \in Nodes : \A r \in rows'[m] : r.id < made'[m]
      BY <3>1, <3>3, <3>4
    <3>6. \A m \in Nodes : \A r, s \in rows'[m] : r.id = s.id => r = s
      BY <3>1, <3>3, <3>4 DEF TInv, Ids
    <3> QED BY <3>2, <3>5, <3>6 DEF Ids
  <2> QED BY <1>1, <2>1, <2>2
<1>6. Known'
  <2>1. ASSUME NEW m \in Nodes
        PROVE  made[m] <= made'[m]
    <3>1. made[m] \in Nat /\ made[n] \in Nat
      BY DEF TInv, TypeOK
    <3>2. made'[m] = made[m] \/ made'[m] = made[m] + 1
      BY <1>1 DEF TInv, TypeOK
    <3> QED BY <3>1, <3>2
  <2> QED BY <1>1, <1>3, <1>4, <2>1, KnownStep DEF Grows, TypeOK
<1>7. Sent'
  BY <1>1 DEF TInv, TypeOK, Sent
<1> QED BY <1>4, <1>5, <1>6, <1>7 DEF TInv

LEMMA DetectStep ==
    ASSUME TInv, NEW n \in Nodes, NEW g \in Others, Detect(n, g)
    PROVE  TInv'
<1>1. /\ g \in Groups /\ Alert(n, g)
      /\ UNCHANGED <<now, log, rows, made, todo, call, events, requests, lifted, freed>>
  BY Constants DEF Detect
<1>2. /\ alerts' \in [Nodes -> Seq(Alerts)]
      /\ \A m \in Nodes : DOMAIN alerts[m] \subseteq DOMAIN alerts'[m]
  BY <1>1, AlertType DEF TInv, TypeOK
<1>3. TypeOK'
  BY <1>1, <1>2 DEF TInv, TypeOK
<1>4. Known'
  <2>1. Grows
    BY <1>1, <1>2 DEF Grows, TInv, TypeOK
  <2> QED BY <1>1, <2>1, KnownStep DEF TInv, TypeOK
<1> QED BY <1>1, <1>3, <1>4 DEF TInv, Ids, Sent

\* Rows are removed, and requests go on or end.
LEMMA RemoveStep ==
    ASSUME TInv, NEW n \in Nodes, NEW s \in SUBSET rows[n], Remove(n, s),
           \A t \in Threads : call'[t] = call[t] \/ call'[t] = Idle,
           call' \in [Threads -> Calls], events' \subseteq events,
           UNCHANGED <<now, log, alerts, made, todo, requests, lifted>>
    PROVE  TInv'
<1>1. /\ rows' \in [Nodes -> SUBSET Rows] /\ freed' \in [Nodes -> [Users -> Nat]]
      /\ \A m \in Nodes : rows'[m] \subseteq rows[m] /\ IsFiniteSet(rows'[m])
  BY RemoveType
<1>2. TypeOK'
  BY <1>1 DEF TInv, TypeOK
<1>3. Ids'
  BY <1>1 DEF TInv, Ids
<1>4. Grows
  BY DEF Grows, TInv, TypeOK
<1>5. Known'
  BY <1>2, <1>4, KnownStep DEF TypeOK
<1>6. Sent'
  BY DEF TInv, Sent
<1> QED BY <1>2, <1>3, <1>5, <1>6 DEF TInv

LEMMA RemoveSteps ==
    ASSUME TInv,
           \/ \E n \in Nodes : Cleanup(n)
           \/ \E t \in Threads : Lift(t)
           \/ \E e \in events : ApplyLift(e)
    PROVE  TInv'
<1>idle. Idle \in Calls
  BY DEF Idle, Calls
<1>1. ASSUME NEW n \in Nodes, Cleanup(n)
      PROVE  TInv'
  <2>1. {r \in rows[n] : r.until <= now} \in SUBSET rows[n]
    OBVIOUS
  <2> QED BY <1>1, <2>1, RemoveStep DEF Cleanup, TInv, TypeOK
<1>2. ASSUME NEW t \in Threads, Lift(t)
      PROVE  TInv'
  <2>1. {r \in rows[Server[t]] : r.id = call[t].row} \in SUBSET rows[Server[t]]
    OBVIOUS
  <2>2. /\ call' \in [Threads -> Calls]
        /\ \A s \in Threads : call'[s] = call[s] \/ call'[s] = Idle
    BY <1>2, <1>idle DEF Lift, TInv, TypeOK
  <2> QED BY <1>2, <2>1, <2>2, RemoveStep, Constants DEF Lift
<1>3. ASSUME NEW e \in events, ApplyLift(e)
      PROVE  TInv'
  <2>1. e.to \in Nodes
    BY DEF TInv, TypeOK, Events
  <2>2. PICK s \in SUBSET rows[e.to] : Remove(e.to, s) \/ UNCHANGED <<rows, freed>>
    BY <1>3 DEF ApplyLift
  <2>3. events' \subseteq events /\ UNCHANGED <<now, log, alerts, made, todo, call, requests, lifted>>
    BY <1>3 DEF ApplyLift
  <2>4. CASE Remove(e.to, s)
    BY <2>1, <2>3, <2>4, RemoveStep DEF TInv, TypeOK
  <2>5. CASE UNCHANGED <<rows, freed>>
    BY <2>3, <2>5 DEF TInv, TypeOK, Ids, Known, Sent
  <2> QED BY <2>2, <2>4, <2>5
<1> QED BY <1>1, <1>2, <1>3

\* An alert is overwritten by a resolved one about the same group.
LEMMA OverwriteType ==
    ASSUME TypeOK, NEW n \in Nodes, NEW i \in DOMAIN alerts[n], NEW x \in Alerts,
           alerts' = [alerts EXCEPT ![n] = [alerts[n] EXCEPT ![i] = x]]
    PROVE  /\ alerts' \in [Nodes -> Seq(Alerts)]
           /\ \A m \in Nodes : DOMAIN alerts'[m] = DOMAIN alerts[m]
           /\ \A m \in Nodes : m # n => alerts'[m] = alerts[m]
           /\ \A j \in DOMAIN alerts[n] : alerts'[n][j] = IF j = i THEN x ELSE alerts[n][j]
<1>1. alerts[n] \in Seq(Alerts) /\ alerts \in [Nodes -> Seq(Alerts)]
  BY DEF TypeOK
<1>2. [alerts[n] EXCEPT ![i] = x] \in Seq(Alerts)
  BY <1>1
<1> QED BY <1>1, <1>2

\* The alert with its resolved flag set.
LEMMA ResolvedAlert ==
    ASSUME TypeOK, NEW n \in Nodes, NEW i \in DOMAIN alerts[n]
    PROVE  LET x == [alerts[n][i] EXCEPT !.resolved = TRUE]
           IN  /\ x \in Alerts /\ x.resolved /\ x.group = alerts[n][i].group
               /\ x.created = alerts[n][i].created
<1>1. alerts[n][i] \in Alerts
  BY DEF TypeOK
<1> QED BY <1>1 DEF Alerts

LEMMA ResolveParts ==
    ASSUME TInv, NEW t \in Threads, NEW i, Resolve(t, i)
    PROVE  /\ i \in DOMAIN alerts[Server[t]] /\ Server[t] \in Nodes
           /\ alerts' = [alerts EXCEPT ![Server[t]] = [alerts[Server[t]] EXCEPT ![i] =
                            [alerts[Server[t]][i] EXCEPT !.resolved = TRUE]]]
           /\ call' = [call EXCEPT ![t] = [Idle EXCEPT !.pc = "announce", !.alert = i]]
           /\ requests' = requests + 1
           /\ UNCHANGED <<now, log, rows, made, todo, events, lifted, freed>>
<1>2. /\ i \in DOMAIN alerts[Server[t]] /\ requests' = requests + 1
      /\ alerts' = [alerts EXCEPT ![Server[t]][i].resolved = TRUE]
      /\ call' = [call EXCEPT ![t] = [Idle EXCEPT !.pc = "announce", !.alert = i]]
      /\ UNCHANGED <<now, log, rows, made, todo, events, lifted, freed>>
  BY DEF Resolve, Begin
<1>3. alerts' = [alerts EXCEPT ![Server[t]] = [alerts[Server[t]] EXCEPT ![i] =
                    [alerts[Server[t]][i] EXCEPT !.resolved = TRUE]]]
  BY <1>2
<1> QED BY <1>2, <1>3, Constants

LEMMA ResolveStep ==
    ASSUME TInv, NEW t \in Threads, NEW i, Resolve(t, i)
    PROVE  TInv'
<1> DEFINE n == Server[t]
           x == [alerts[n][i] EXCEPT !.resolved = TRUE]
           c == [Idle EXCEPT !.pc = "announce", !.alert = i]
<1>0. TypeOK
  BY DEF TInv
<1>1. /\ i \in DOMAIN alerts[n] /\ n \in Nodes
      /\ alerts' = [alerts EXCEPT ![n] = [alerts[n] EXCEPT ![i] = x]]
      /\ call' = [call EXCEPT ![t] = c]
      /\ requests' = requests + 1
      /\ UNCHANGED <<now, log, rows, made, todo, events, lifted, freed>>
  BY ResolveParts
<1>2. x \in Alerts
  BY <1>0, <1>1, ResolvedAlert
<1> HIDE DEF x
<1>3. /\ alerts' \in [Nodes -> Seq(Alerts)]
      /\ \A m \in Nodes : DOMAIN alerts'[m] = DOMAIN alerts[m]
  BY <1>0, <1>1, <1>2, OverwriteType
<1>4. c \in Calls /\ c.pc = "announce" /\ c.alert = i
  <2>1. i \in Nat
    BY <1>0, <1>1 DEF TypeOK
  <2> QED BY <2>1 DEF Calls, Idle
<1> HIDE DEF c
<1>5. TypeOK'
  BY <1>0, <1>1, <1>3, <1>4 DEF TypeOK
<1>6. Known'
  <2>1. ASSUME NEW s \in Threads
        PROVE  /\ call'[s].pc = "announce" => call'[s].alert \in DOMAIN alerts[Server[s]]
               /\ call'[s].pc = "delete" => call'[s].row < made[Server[s]]
    BY <1>0, <1>1, <1>4 DEF TypeOK, TInv, Known
  <2> QED BY <1>1, <1>3, <2>1, Constants DEF Known
<1> QED BY <1>1, <1>5, <1>6 DEF TInv, Ids, Sent

LEMMA AnnounceResolvedStep ==
    ASSUME TInv, NEW t \in Threads, AnnounceResolved(t)
    PROVE  TInv'
<1> DEFINE n == Server[t]
           x == [alerts[n][call[t].alert] EXCEPT !.resolved = TRUE]
<1>0. TypeOK /\ n \in Nodes /\ call[t].alert \in DOMAIN alerts[n] /\ requests \in Nat
  BY Constants DEF TInv, TypeOK, Known, AnnounceResolved
<1>1. x \in Alerts /\ x.resolved
  BY <1>0, ResolvedAlert
<1> HIDE DEF x
<1>2. /\ events' = events \cup [to: Nodes \ {n}, request: {requests}, lifts: {None}, alert: {x}]
      /\ call' = [call EXCEPT ![t] = Idle]
      /\ UNCHANGED <<now, log, alerts, rows, made, todo, requests, lifted, freed>>
  BY DEF AnnounceResolved, Send, x
<1>3. \A e \in events' : e \in events \/ (e \in Events /\ e.lifts = None /\ e.alert.resolved)
  BY <1>0, <1>1, <1>2 DEF Events
<1>4. Idle \in Calls
  BY DEF Idle, Calls
<1>5. TypeOK'
  BY <1>0, <1>2, <1>3, <1>4 DEF TypeOK
<1>6. Known'
  <2>1. Grows /\ \A s \in Threads : call'[s] = call[s] \/ call'[s] = Idle
    BY <1>0, <1>2 DEF Grows, TypeOK
  <2> QED BY <1>5, <2>1, KnownStep DEF TypeOK
<1>7. Sent'
  BY <1>2, <1>3 DEF TInv, Sent
<1> QED BY <1>2, <1>5, <1>6, <1>7 DEF TInv, Ids

LEMMA AnnounceLiftParts ==
    ASSUME TInv, NEW t \in Threads, NEW r, AnnounceLift(t, r)
    PROVE  /\ Server[t] \in Nodes /\ r \in rows[Server[t]] /\ r \in Rows
           /\ r.id < made[Server[t]] /\ call[t] = Idle
           /\ requests' = requests + 1
           /\ events' = events \cup
                 [to: Nodes \ {Server[t]}, request: {requests'}, lifts: {r.user}, alert: {None}]
           /\ lifted' = [lifted EXCEPT ![r.user] = lifted[r.user] + 1]
           /\ call' = [call EXCEPT ![t] = [Idle EXCEPT !.pc = "delete", !.row = r.id]]
           /\ UNCHANGED <<now, log, alerts, rows, made, todo, freed>>
<1>2. /\ r \in rows[Server[t]] /\ call[t] = Idle /\ requests' = requests + 1
      /\ events' = events \cup
            [to: Nodes \ {Server[t]}, request: {requests'}, lifts: {r.user}, alert: {None}]
      /\ lifted' = [lifted EXCEPT ![r.user] = lifted[r.user] + 1]
      /\ call' = [call EXCEPT ![t] = [Idle EXCEPT !.pc = "delete", !.row = r.id]]
      /\ UNCHANGED <<now, log, alerts, rows, made, todo, freed>>
  BY DEF AnnounceLift, Begin, Send
<1>3. Server[t] \in Nodes /\ r \in Rows /\ r.id < made[Server[t]]
  BY <1>2, Constants DEF TInv, TypeOK, Ids
<1> QED BY <1>2, <1>3

LEMMA AnnounceLiftStep ==
    ASSUME TInv, NEW t \in Threads, NEW r, AnnounceLift(t, r)
    PROVE  TInv'
<1> DEFINE c == [Idle EXCEPT !.pc = "delete", !.row = r.id]
<1>0. TypeOK
  BY DEF TInv
<1>1. /\ Server[t] \in Nodes /\ r \in Rows /\ r.id < made[Server[t]]
      /\ requests' = requests + 1
      /\ events' = events \cup
            [to: Nodes \ {Server[t]}, request: {requests'}, lifts: {r.user}, alert: {None}]
      /\ lifted' = [lifted EXCEPT ![r.user] = lifted[r.user] + 1]
      /\ call' = [call EXCEPT ![t] = c]
      /\ UNCHANGED <<now, log, alerts, rows, made, todo, freed>>
  BY AnnounceLiftParts
<1>2. r.id \in Nat /\ r.user \in Users /\ c \in Calls /\ c.pc = "delete" /\ c.row = r.id
  BY <1>1 DEF Rows, Calls, Idle
<1> HIDE DEF c
<1>3. requests' \in Nat
  BY <1>0, <1>1 DEF TypeOK
<1>4. \A e \in events' : e \in events \/ (e \in Events /\ e.alert = None)
  BY <1>1, <1>2, <1>3 DEF Events
<1>5. TypeOK'
  <2>1. lifted' \in [Users -> Nat]
    BY <1>0, <1>1, <1>2 DEF TypeOK
  <2>2. call' \in [Threads -> Calls]
    BY <1>0, <1>1, <1>2 DEF TypeOK
  <2> QED BY <1>0, <1>1, <1>3, <1>4, <2>1, <2>2 DEF TypeOK
<1>6. Known'
  BY <1>0, <1>1, <1>2 DEF TypeOK, TInv, Known
<1>7. Sent'
  BY <1>1, <1>4 DEF TInv, Sent
<1> QED BY <1>1, <1>5, <1>6, <1>7 DEF TInv, Ids

\* The two outcomes of an event that an alert was resolved.
LEMMA ApplyResolvedParts ==
    ASSUME TInv, NEW e \in events, ApplyResolved(e)
    PROVE  /\ e.to \in Nodes /\ e.alert \in Alerts /\ e.alert.resolved /\ events' \subseteq events
           /\ \/ alerts' = [alerts EXCEPT ![e.to] = Append(alerts[e.to], e.alert)]
              \/ \E i \in DOMAIN alerts[e.to] :
                    /\ alerts[e.to][i].group = e.alert.group
                    /\ alerts' = [alerts EXCEPT ![e.to] = [alerts[e.to] EXCEPT ![i] = e.alert]]
           /\ UNCHANGED <<now, log, rows, made, todo, call, requests, lifted, freed>>
BY DEF ApplyResolved, TInv, TypeOK, Events, Sent

LEMMA ApplyResolvedStep ==
    ASSUME TInv, NEW e \in events, ApplyResolved(e)
    PROVE  TInv'
<1> DEFINE n == e.to
           x == e.alert
<1>0. TypeOK
  BY DEF TInv
<1>1. /\ n \in Nodes /\ x \in Alerts /\ events' \subseteq events
      /\ \/ alerts' = [alerts EXCEPT ![n] = Append(alerts[n], x)]
         \/ \E i \in DOMAIN alerts[n] : alerts' = [alerts EXCEPT ![n] = [alerts[n] EXCEPT ![i] = x]]
      /\ UNCHANGED <<now, log, rows, made, todo, call, requests, lifted, freed>>
  BY ApplyResolvedParts
<1> HIDE DEF n, x
<1>2. /\ alerts' \in [Nodes -> Seq(Alerts)]
      /\ \A m \in Nodes : DOMAIN alerts[m] \subseteq DOMAIN alerts'[m]
  <2>1. CASE alerts' = [alerts EXCEPT ![n] = Append(alerts[n], x)]
    <3>1. alerts[n] \in Seq(Alerts) /\ alerts \in [Nodes -> Seq(Alerts)]
      BY <1>0, <1>1 DEF TypeOK
    <3>2. Append(alerts[n], x) \in Seq(Alerts) /\ DOMAIN alerts[n] \subseteq DOMAIN Append(alerts[n], x)
      BY <1>1, <3>1
    <3> QED BY <2>1, <3>1, <3>2
  <2>2. CASE \E i \in DOMAIN alerts[n] : alerts' = [alerts EXCEPT ![n] = [alerts[n] EXCEPT ![i] = x]]
    BY <1>0, <1>1, <2>2, OverwriteType
  <2> QED BY <1>1, <2>1, <2>2
<1>3. TypeOK'
  BY <1>0, <1>1, <1>2 DEF TypeOK
<1>4. Known'
  <2>1. Grows
    BY <1>0, <1>1, <1>2 DEF Grows, TypeOK
  <2> QED BY <1>0, <1>1, <2>1, KnownStep DEF TypeOK
<1> QED BY <1>1, <1>3, <1>4 DEF TInv, Ids, Sent

LEMMA TickStep ==
    ASSUME TInv, Tick
    PROVE  TInv'
<1>1. TypeOK'
  BY DEF TInv, TypeOK, Tick
<1> QED BY <1>1 DEF Tick, TInv, Ids, Known, Sent

LEMMA NextTInv == TInv /\ [Next]_vars => TInv'
<1> SUFFICES ASSUME TInv, [Next]_vars PROVE TInv'
  OBVIOUS
<1>1. ASSUME NEW t \in Threads, Request(t)
      PROVE  TInv'
  BY <1>1, ResolveStep, AnnounceResolvedStep, AnnounceLiftStep, RemoveSteps DEF Request
<1>2. ASSUME NEW n \in Nodes, EventLoop(n) \/ Crash(n)
      PROVE  TInv'
  BY <1>2, LogStep, PassStep, RemoveSteps, JudgeStep, DetectStep DEF EventLoop
<1>3. ASSUME NEW e \in events, ApplyLift(e) \/ ApplyResolved(e)
      PROVE  TInv'
  BY <1>3, RemoveSteps, ApplyResolvedStep
<1>4. CASE UNCHANGED vars
  BY <1>4 DEF vars, TInv, TypeOK, Ids, Known, Sent
<1> QED BY <1>1, <1>2, <1>3, <1>4, TickStep DEF Next

LEMMA TypeInvariant == Spec => []TInv
BY InitTInv, NextTInv, PTL DEF Spec

\* Tables, passes, requests and events are always well-typed.
THEOREM AccessTypeOK == Spec => []TypeOK
BY TypeInvariant, PTL DEF TInv

-----------------------------------------------------------------------------
\* How a step changes the alerts of a server and its restrictions.

LEMMA AlertSteps ==
    ASSUME TInv, [Next]_vars, NEW n \in Nodes
    PROVE  \/ alerts'[n] = alerts[n]
           \/ \E x \in Alerts :
                 /\ alerts'[n] = Append(alerts[n], x)
                 /\ x.resolved \/ (x.created = now /\ now' = now /\ ~Existing(n, x.group))
           \/ \E i \in DOMAIN alerts[n], x \in Alerts :
                 /\ alerts'[n] = [alerts[n] EXCEPT ![i] = x]
                 /\ x.resolved /\ x.group = alerts[n][i].group
<1> DEFINE Goal ==
           \/ alerts'[n] = alerts[n]
           \/ \E x \in Alerts :
                 /\ alerts'[n] = Append(alerts[n], x)
                 /\ x.resolved \/ (x.created = now /\ now' = now /\ ~Existing(n, x.group))
           \/ \E i \in DOMAIN alerts[n], x \in Alerts :
                 /\ alerts'[n] = [alerts[n] EXCEPT ![i] = x]
                 /\ x.resolved /\ x.group = alerts[n][i].group
<1>0. TypeOK /\ alerts \in [Nodes -> Seq(Alerts)]
  BY DEF TInv, TypeOK
<1>1. ASSUME UNCHANGED alerts
      PROVE  Goal
  BY <1>1
<1>2. ASSUME NEW t \in Threads, NEW i, Resolve(t, i)
      PROVE  Goal
  <2> DEFINE x == [alerts[Server[t]][i] EXCEPT !.resolved = TRUE]
  <2>1. /\ i \in DOMAIN alerts[Server[t]] /\ Server[t] \in Nodes
        /\ alerts' = [alerts EXCEPT ![Server[t]] = [alerts[Server[t]] EXCEPT ![i] = x]]
    BY <1>2, ResolveParts
  <2>2. x \in Alerts /\ x.resolved /\ x.group = alerts[Server[t]][i].group
    BY <1>0, <2>1, ResolvedAlert
  <2> HIDE DEF x
  <2> QED BY <1>0, <2>1, <2>2
<1>3. ASSUME NEW m \in Nodes, NEW g \in Groups, Alert(m, g), ~Existing(m, g), now' = now
      PROVE  Goal
  <2> DEFINE x == [group |-> g, created |-> now, resolved |-> FALSE]
  <2>1. x \in Alerts /\ x.created = now /\ x.group = g
    BY <1>0 DEF TypeOK, Alerts
  <2>2. alerts'[m] = Append(alerts[m], x) /\ (m # n => alerts'[n] = alerts[n])
    BY <1>0, <1>3, AlertType
  <2> HIDE DEF x
  <2> QED BY <1>3, <2>1, <2>2
<1>4. ASSUME NEW e \in events, ApplyResolved(e)
      PROVE  Goal
  <2>1. /\ e.to \in Nodes /\ e.alert \in Alerts /\ e.alert.resolved
        /\ \/ alerts' = [alerts EXCEPT ![e.to] = Append(alerts[e.to], e.alert)]
           \/ \E i \in DOMAIN alerts[e.to] :
                 /\ alerts[e.to][i].group = e.alert.group
                 /\ alerts' = [alerts EXCEPT ![e.to] = [alerts[e.to] EXCEPT ![i] = e.alert]]
    BY <1>4, ApplyResolvedParts
  <2>2. CASE e.to # n
    BY <1>0, <2>1, <2>2
  <2>3. CASE e.to = n
    <3>1. CASE alerts' = [alerts EXCEPT ![e.to] = Append(alerts[e.to], e.alert)]
      BY <1>0, <2>1, <2>3, <3>1
    <3>2. ASSUME NEW i \in DOMAIN alerts[e.to], alerts[e.to][i].group = e.alert.group,
                 alerts' = [alerts EXCEPT ![e.to] = [alerts[e.to] EXCEPT ![i] = e.alert]]
          PROVE  Goal
      <4>1. i \in DOMAIN alerts[n] /\ alerts'[n] = [alerts[n] EXCEPT ![i] = e.alert]
        BY <1>0, <2>3, <3>2
      <4> QED BY <2>1, <2>3, <3>2, <4>1
    <3> QED BY <2>1, <3>1, <3>2
  <2> QED BY <2>2, <2>3
<1>5. ASSUME NEW m \in Nodes, NEW g \in todo[m], Judge(m, g)
      PROVE  Goal
  <2>1. g \in Groups
    BY DEF TInv, TypeOK
  <2> QED BY <1>1, <1>3, <1>5, <2>1 DEF Judge
<1>6. ASSUME NEW m \in Nodes, NEW g \in Others, Detect(m, g)
      PROVE  Goal
  BY <1>3, <1>6, Constants DEF Detect
<1>7. ASSUME NEW t \in Threads, Request(t)
      PROVE  Goal
  BY <1>1, <1>2, <1>7 DEF Request, AnnounceResolved, AnnounceLift, Lift
<1>8. ASSUME NEW m \in Nodes, EventLoop(m)
      PROVE  Goal
  BY <1>1, <1>5, <1>6, <1>8 DEF EventLoop, LogFailure, StartPass, FailPass, Cleanup
<1> HIDE DEF Goal
<1> QED BY <1>1, <1>4, <1>7, <1>8 DEF Next, Crash, ApplyLift, Tick, vars, Goal

\* A restriction is only ever added by the detector.
LEMMA RowSteps ==
    ASSUME TInv, [Next]_vars, NEW n \in Nodes
    PROVE  \/ rows'[n] \subseteq rows[n]
           \/ \E g \in todo[n] :
                 /\ Judge(n, g) /\ Alert(n, g) /\ g.user # None
                 /\ rows'[n] = rows[n] \cup
                       {[id |-> made[n], user |-> g.user, until |-> now + Duration]}
<1> DEFINE Goal ==
           \/ rows'[n] \subseteq rows[n]
           \/ \E g \in todo[n] :
                 /\ Judge(n, g) /\ Alert(n, g) /\ g.user # None
                 /\ rows'[n] = rows[n] \cup
                       {[id |-> made[n], user |-> g.user, until |-> now + Duration]}
<1>0. rows \in [Nodes -> SUBSET Rows]
  BY DEF TInv, TypeOK
<1>1. ASSUME UNCHANGED rows
      PROVE  Goal
  BY <1>1
<1>2. ASSUME NEW m \in Nodes, NEW s \in SUBSET rows[m], Remove(m, s)
      PROVE  Goal
  BY <1>2, RemoveType
<1>3. ASSUME NEW m \in Nodes, NEW g \in todo[m], Judge(m, g)
      PROVE  Goal
  <2>1. CASE ~Existing(m, g) /\ g.kind = Spike /\ g.user # None
    <3>1. /\ Alert(m, g)
          /\ rows' = [rows EXCEPT ![m] = @ \cup
                        {[id |-> made[m], user |-> g.user, until |-> now + Duration]}]
      BY <1>3, <2>1 DEF Judge, Suspend
    <3>2. CASE m = n
      BY <1>0, <1>3, <2>1, <3>1, <3>2
    <3>3. CASE m # n
      BY <1>0, <3>1, <3>3
    <3> QED BY <3>2, <3>3
  <2>2. CASE ~(~Existing(m, g) /\ g.kind = Spike /\ g.user # None)
    <3>1. UNCHANGED rows
      BY <1>3, <2>2 DEF Judge
    <3> QED BY <1>1, <3>1
  <2> QED BY <2>1, <2>2
<1>4. ASSUME NEW m \in Nodes, Cleanup(m)
      PROVE  Goal
  <2>1. {r \in rows[m] : r.until <= now} \in SUBSET rows[m]
    OBVIOUS
  <2> QED BY <1>2, <1>4, <2>1 DEF Cleanup
<1>5. ASSUME NEW t \in Threads, Lift(t)
      PROVE  Goal
  <2>1. {r \in rows[Server[t]] : r.id = call[t].row} \in SUBSET rows[Server[t]]
    OBVIOUS
  <2> QED BY <1>2, <1>5, <2>1, Constants DEF Lift
<1>6. ASSUME NEW e \in events, ApplyLift(e)
      PROVE  Goal
  <2>1. e.to \in Nodes
    BY DEF TInv, TypeOK, Events
  <2>2. PICK s \in SUBSET rows[e.to] : Remove(e.to, s) \/ UNCHANGED rows
    BY <1>6 DEF ApplyLift
  <2> QED BY <1>1, <1>2, <2>1, <2>2
<1>7. ASSUME NEW t \in Threads, Request(t)
      PROVE  Goal
  BY <1>1, <1>5, <1>7 DEF Request, Resolve, AnnounceResolved, AnnounceLift
<1>8. ASSUME NEW m \in Nodes, EventLoop(m)
      PROVE  Goal
  BY <1>1, <1>3, <1>4, <1>8 DEF EventLoop, LogFailure, StartPass, FailPass, Detect
<1> HIDE DEF Goal
<1> QED BY <1>1, <1>6, <1>7, <1>8 DEF Next, Crash, ApplyResolved, Tick, vars, Goal

-----------------------------------------------------------------------------
\* Alerts about the same thing are apart.

\* No unresolved alert is from the future.
NotAhead ==
    \A n \in Nodes : \A i \in DOMAIN alerts[n] :
        ~alerts[n][i].resolved => alerts[n][i].created <= now

AInv == TInv /\ NotAhead /\ AlertsApart

LEMMA InitAInv == Init => AInv
<1> SUFFICES ASSUME Init PROVE AInv
  OBVIOUS
<1>1. \A n \in Nodes : DOMAIN alerts[n] = {}
  BY DEF Init
<1> QED BY <1>1, InitTInv DEF AInv, NotAhead, AlertsApart

LEMMA NextAInv == AInv /\ [Next]_vars => AInv'
<1> SUFFICES ASSUME AInv, [Next]_vars PROVE AInv'
  OBVIOUS
<1>0. TInv /\ TInv'
  BY NextTInv DEF AInv
<1>1. now \in Nat /\ now' \in Nat /\ now' >= now
  <2>1. now' = now \/ now' = now + 1
    BY DEF Next, Request, EventLoop, Resolve, AnnounceResolved, AnnounceLift, Lift, LogFailure,
           StartPass, FailPass, Cleanup, Judge, Detect, Crash, ApplyLift, ApplyResolved, Tick, vars
  <2> QED BY <1>0, <2>1 DEF TInv, TypeOK
<1>2. ASSUME NEW n \in Nodes
      PROVE  /\ \A i \in DOMAIN alerts'[n] :
                   ~alerts'[n][i].resolved => alerts'[n][i].created <= now'
             /\ \A i, j \in DOMAIN alerts'[n] :
                   /\ i < j /\ Alike(alerts'[n][j].group, alerts'[n][i].group)
                   /\ ~alerts'[n][i].resolved /\ ~alerts'[n][j].resolved
                   => alerts'[n][j].created >
                         alerts'[n][i].created + QuietTime[alerts'[n][i].group.kind]
  <2> DEFINE s == alerts[n]
             z == alerts'[n]
             q(x) == QuietTime[x.group.kind]
             apart(x, y) == Alike(y.group, x.group) /\ ~x.resolved /\ ~y.resolved
                            => y.created > x.created + q(x)
  <2>1. s \in Seq(Alerts) /\ z \in Seq(Alerts)
    BY <1>0 DEF TInv, TypeOK
  <2>2. \A i \in DOMAIN s : ~s[i].resolved => s[i].created <= now
    BY DEF AInv, NotAhead
  <2>3. \A i, j \in DOMAIN s : i < j => apart(s[i], s[j])
    BY DEF AInv, AlertsApart
  <2>4. \A x \in Alerts : q(x) \in Nat /\ x.created \in Nat
    BY TimeAssumption DEF Alerts, Groups
  <2>5. CASE z = s
    BY <1>1, <2>1, <2>2, <2>3, <2>4, <2>5
  <2>6. ASSUME NEW x \in Alerts, z = Append(s, x),
               x.resolved \/ (x.created = now /\ now' = now /\ ~Existing(n, x.group))
        PROVE  /\ \A i \in DOMAIN z : ~z[i].resolved => z[i].created <= now'
               /\ \A i, j \in DOMAIN z : i < j => apart(z[i], z[j])
    <3>1. /\ DOMAIN z = 1 .. Len(s) + 1 /\ z[Len(s) + 1] = x /\ Len(s) \in Nat
          /\ DOMAIN s = 1 .. Len(s) /\ \A i \in DOMAIN s : z[i] = s[i] /\ s[i] \in Alerts
      BY <2>1, <2>6
    <3>2. \A i \in DOMAIN s : ~s[i].resolved => s[i].created <= now'
      BY <1>1, <2>2, <2>4, <3>1
    <3>3. ASSUME NEW i \in DOMAIN s
          PROVE  apart(s[i], x)
      <4> SUFFICES ASSUME Alike(x.group, s[i].group), ~s[i].resolved, ~x.resolved
                   PROVE  x.created > s[i].created + q(s[i])
        OBVIOUS
      <4>1. ~(s[i].created + QuietTime[x.group.kind] >= now)
        BY <2>6 DEF Existing
      <4>2. x.group.kind = s[i].group.kind /\ x.created = now
        BY <2>6 DEF Alike
      <4>3. s[i].created \in Nat /\ q(s[i]) \in Nat
        BY <2>4, <3>1
      <4> QED BY <1>1, <4>1, <4>2, <4>3
    <3> HIDE DEF apart, s, z
    <3>4. \A i \in DOMAIN z : i \in DOMAIN s \/ i = Len(s) + 1
      BY <3>1
    <3>5. ~x.resolved => x.created <= now'
      BY <1>1, <2>6
    <3>6. \A i, j \in DOMAIN z : i < j => i \in DOMAIN s
      BY <3>1
    <3> QED BY <2>3, <3>1, <3>2, <3>3, <3>4, <3>5, <3>6
  <2>7. ASSUME NEW k \in DOMAIN s, NEW x \in Alerts, z = [s EXCEPT ![k] = x], x.resolved
        PROVE  /\ \A i \in DOMAIN z : ~z[i].resolved => z[i].created <= now'
               /\ \A i, j \in DOMAIN z : i < j => apart(z[i], z[j])
    <3>1. DOMAIN z = DOMAIN s /\ \A i \in DOMAIN s : z[i] = IF i = k THEN x ELSE s[i]
      BY <2>1, <2>7
    <3>2. \A i \in DOMAIN s : ~s[i].resolved => s[i].created <= now'
      BY <1>1, <2>1, <2>2, <2>4
    <3>3. \A y : apart(x, y) /\ apart(y, x)
      BY <2>7
    <3> HIDE DEF apart, s, z
    <3> QED BY <2>3, <2>7, <3>1, <3>2, <3>3
  <2>8. /\ \A i \in DOMAIN z : ~z[i].resolved => z[i].created <= now'
        /\ \A i, j \in DOMAIN z : i < j => apart(z[i], z[j])
    BY <1>0, <2>5, <2>6, <2>7, AlertSteps
  <2> QED BY <2>8
<1>3. NotAhead' /\ AlertsApart'
  BY <1>2 DEF NotAhead, AlertsApart
<1> QED BY <1>0, <1>3 DEF AInv

\* Two unresolved alerts about the same thing are further apart than the quiet time.
THEOREM AlertsStayApart == Spec => []AlertsApart
BY InitAInv, NextAInv, PTL DEF Spec, AInv

-----------------------------------------------------------------------------
\* Suspensions are earned.

\* The log has a spike of user u.
SpikeLogged(n, u) == \E a \in Addresses : Cardinality(Logged(n, a, u)) > Threshold

EInv ==
    /\ TInv
    /\ \A n \in Nodes : \A r \in rows[n] : SpikeLogged(n, r.user)
    /\ \A n \in Nodes : \A g \in todo[n] : SpikeLogged(n, g.user)

\* The log only grows.
LEMMA LoggedGrows ==
    ASSUME TInv, TInv', [Next]_vars, NEW n \in Nodes, NEW u, SpikeLogged(n, u)
    PROVE  SpikeLogged(n, u)'
<1>1. PICK a \in Addresses : Cardinality(Logged(n, a, u)) > Threshold
  BY DEF SpikeLogged
<1>2. log'[n] = log[n] \/ \E x \in Failures : log'[n] = Append(log[n], x)
  <2>1. ASSUME NEW m \in Nodes, NEW b \in Addresses, NEW v \in Users \cup {None}, LogFailure(m, b, v)
        PROVE  log'[n] = log[n] \/ \E x \in Failures : log'[n] = Append(log[n], x)
    <3> DEFINE x == [addr |-> b, user |-> v, at |-> now]
    <3>1. x \in Failures
      BY DEF Failures, TInv, TypeOK
    <3>2. log' = [log EXCEPT ![m] = Append(log[m], x)]
      BY <2>1 DEF LogFailure
    <3> HIDE DEF x
    <3> QED BY <3>1, <3>2 DEF TInv, TypeOK
  <2> QED BY <2>1 DEF Next, Request, EventLoop, Resolve, AnnounceResolved, AnnounceLift, Lift,
           StartPass, FailPass, Cleanup, Judge, Detect, Crash, ApplyLift, ApplyResolved, Tick, vars
<1>3. Logged(n, a, u) \in SUBSET (Logged(n, a, u)')
  <2>1. log[n] \in Seq(Failures)
    BY DEF TInv, TypeOK
  <2> QED BY <1>2, <2>1 DEF Logged
<1>4. IsFiniteSet(Logged(n, a, u)') /\ Cardinality(Logged(n, a, u)') \in Nat
  <2>1. log'[n] \in Seq(Failures) /\ Logged(n, a, u)' \in SUBSET (DOMAIN log'[n])
    BY DEF TInv, TypeOK, Logged
  <2> QED BY <2>1, PositionsFinite
<1>5. Cardinality(Logged(n, a, u)) <= Cardinality(Logged(n, a, u)')
  BY <1>3, <1>4, FS_Subset
<1>6. Cardinality(Logged(n, a, u)') > Threshold
  BY <1>1, <1>4, <1>5, LoggedFinite, Constants DEF TInv
<1> QED BY <1>6 DEF SpikeLogged

LEMMA NextEInv == EInv /\ [Next]_vars => EInv'
<1> SUFFICES ASSUME EInv, [Next]_vars PROVE EInv'
  OBVIOUS
<1>0. TInv /\ TInv'
  BY NextTInv DEF EInv
<1>1. ASSUME NEW n \in Nodes, NEW r \in rows'[n]
      PROVE  SpikeLogged(n, r.user)
  BY <1>0, <1>1, RowSteps DEF EInv
<1>2. ASSUME NEW n \in Nodes, NEW g \in todo'[n]
      PROVE  SpikeLogged(n, g.user)
  <2>1. g \in todo[n] \/ g \in Spikes(n)
    BY <1>0, <1>2 DEF Next, Request, EventLoop, Resolve, AnnounceResolved, AnnounceLift, Lift,
           LogFailure, StartPass, FailPass, Cleanup, Judge, Detect, Crash, ApplyLift, ApplyResolved,
           Tick, vars, TInv, TypeOK
  <2> QED BY <1>0, <2>1, SpikeGroups DEF EInv, TInv, SpikeLogged
<1>3. ASSUME NEW n \in Nodes, NEW u, SpikeLogged(n, u)
      PROVE  SpikeLogged(n, u)'
  BY <1>0, <1>3, LoggedGrows
<1>4. \A n \in Nodes : \A r \in rows'[n] : \A u : u = r.user => SpikeLogged(n, u)'
  BY <1>1, <1>3
<1>5. \A n \in Nodes : \A g \in todo'[n] : \A u : u = g.user => SpikeLogged(n, u)'
  BY <1>2, <1>3
<1> QED BY <1>0, <1>4, <1>5 DEF EInv

\* Nobody is suspended for less than a spike in the log of the server.
THEOREM SuspensionsEarned == Spec => []SuspensionsAreEarned
<1>1. Init => EInv
  BY InitTInv DEF Init, EInv
<1>2. EInv => SuspensionsAreEarned
  BY DEF EInv, SpikeLogged, Logged, SuspensionsAreEarned
<1> QED BY <1>1, <1>2, NextEInv, PTL DEF Spec

-----------------------------------------------------------------------------
\* Suspensions have alerts.

Suspensions(n, u) == {r \in rows[n] : r.user = u}

SpikeAlerts(n, u) ==
    {i \in DOMAIN alerts[n] : LET g == alerts[n][i].group IN g.kind = Spike /\ g.user = u}

HInv == TInv /\ SuspensionsHaveAlerts

LEMMA NextHInv == HInv /\ [Next]_vars => HInv'
<1> SUFFICES ASSUME HInv, [Next]_vars PROVE HInv'
  OBVIOUS
<1>0. TInv /\ TInv'
  BY NextTInv DEF HInv
<1>1. ASSUME NEW n \in Nodes, NEW u \in Users
      PROVE  Cardinality(Suspensions(n, u)') <= Cardinality(SpikeAlerts(n, u)')
  <2> DEFINE S == Suspensions(n, u)
             A == SpikeAlerts(n, u)
             S1 == Suspensions(n, u)'
             A1 == SpikeAlerts(n, u)'
  <2>0. Cardinality(S) <= Cardinality(A)
    BY DEF HInv, SuspensionsHaveAlerts, Suspensions, SpikeAlerts
  <2>1. IsFiniteSet(S) /\ Cardinality(S) \in Nat
    <3>1. IsFiniteSet(rows[n]) /\ S \in SUBSET rows[n]
      BY <1>0 DEF TInv, Ids, Suspensions
    <3> QED BY <3>1, FS_Subset, FS_CardinalityType
  <2>2. IsFiniteSet(A) /\ Cardinality(A) \in Nat
    <3>1. alerts[n] \in Seq(Alerts) /\ A \in SUBSET (DOMAIN alerts[n])
      BY <1>0 DEF TInv, TypeOK, SpikeAlerts
    <3> QED BY <3>1, PositionsFinite
  <2>3. IsFiniteSet(A1) /\ Cardinality(A1) \in Nat
    <3>1. alerts'[n] \in Seq(Alerts) /\ A1 \in SUBSET (DOMAIN alerts'[n])
      BY <1>0 DEF TInv, TypeOK, SpikeAlerts
    <3> QED BY <3>1, PositionsFinite
  <2>4. A \in SUBSET A1
    <3>1. alerts[n] \in Seq(Alerts)
      BY <1>0 DEF TInv, TypeOK
    <3>2. CASE alerts'[n] = alerts[n]
      BY <3>2 DEF SpikeAlerts
    <3>3. ASSUME NEW x \in Alerts, alerts'[n] = Append(alerts[n], x)
          PROVE  A \in SUBSET A1
      BY <3>1, <3>3 DEF SpikeAlerts
    <3>4. ASSUME NEW i \in DOMAIN alerts[n], NEW x \in Alerts, x.group = alerts[n][i].group,
                 alerts'[n] = [alerts[n] EXCEPT ![i] = x]
          PROVE  A \in SUBSET A1
      BY <3>1, <3>4 DEF SpikeAlerts
    <3> QED BY <1>0, <3>2, <3>3, <3>4, AlertSteps
  <2>5. Cardinality(A) <= Cardinality(A1)
    BY <2>3, <2>4, FS_Subset
  <2>6. ASSUME S1 \in SUBSET S
        PROVE  Cardinality(S1) <= Cardinality(A1)
    <3>1. IsFiniteSet(S1) /\ Cardinality(S1) <= Cardinality(S)
      BY <2>1, <2>6, FS_Subset
    <3>2. Cardinality(S1) \in Nat
      BY <3>1, FS_CardinalityType
    <3> QED BY <2>0, <2>1, <2>2, <2>3, <2>5, <3>1, <3>2
  <2>7. CASE rows'[n] \subseteq rows[n]
    <3>1. S1 \in SUBSET S
      BY <2>7 DEF Suspensions
    <3> QED BY <2>6, <3>1
  <2>8. ASSUME NEW g \in todo[n], Alert(n, g), Judge(n, g),
               rows'[n] = rows[n] \cup {[id |-> made[n], user |-> g.user, until |-> now + Duration]}
        PROVE  Cardinality(S1) <= Cardinality(A1)
    <3> DEFINE new == [id |-> made[n], user |-> g.user, until |-> now + Duration]
    <3>1. CASE g.user # u
      <4>1. S1 \in SUBSET S
        BY <2>8, <3>1 DEF Suspensions
      <4> QED BY <2>6, <4>1
    <3>2. CASE g.user = u
      <4>1. S1 = S \cup {new}
        BY <2>8, <3>2 DEF Suspensions
      <4> HIDE DEF new
      <4>2. Cardinality(S \cup {new}) = IF new \in S THEN Cardinality(S) ELSE Cardinality(S) + 1
        BY <2>1, FS_AddElement
      <4>3. /\ alerts[n] \in Seq(Alerts) /\ g \in Groups /\ g.kind = Spike
            /\ alerts'[n] = Append(alerts[n], [group |-> g, created |-> now, resolved |-> FALSE])
        BY <1>0, <2>8, AlertType DEF TInv, TypeOK, Sent
      <4>4. Len(alerts[n]) + 1 \in A1 /\ Len(alerts[n]) + 1 \notin A
        BY <3>2, <4>3 DEF SpikeAlerts
      <4>5. A \cup {Len(alerts[n]) + 1} \in SUBSET A1
        BY <2>4, <4>4
      <4>6. Cardinality(A \cup {Len(alerts[n]) + 1}) = Cardinality(A) + 1
        BY <2>2, <4>4, FS_AddElement
      <4>7. Cardinality(A \cup {Len(alerts[n]) + 1}) <= Cardinality(A1)
        BY <2>3, <4>5, FS_Subset
      <4>8. Cardinality(S1) <= Cardinality(S) + 1 /\ Cardinality(S1) \in Nat
        <5>1. Cardinality(S1) = Cardinality(S \cup {new})
          BY <4>1
        <5> QED BY <2>1, <4>2, <5>1
      <4> HIDE DEF S, A, S1, A1
      <4> QED BY <2>0, <2>1, <2>2, <2>3, <4>6, <4>7, <4>8
    <3> QED BY <3>1, <3>2
  <2> QED BY <1>0, <2>7, <2>8, RowSteps
<1>2. SuspensionsHaveAlerts'
  BY <1>1 DEF SuspensionsHaveAlerts, Suspensions, SpikeAlerts
<1> QED BY <1>0, <1>2 DEF HInv

\* An administrator finds an alert for each suspension.
THEOREM SuspensionsShown == Spec => []SuspensionsHaveAlerts
<1>1. Init => HInv
  <2> SUFFICES ASSUME Init, NEW n \in Nodes, NEW u \in Users
               PROVE  Cardinality(Suspensions(n, u)) <= Cardinality(SpikeAlerts(n, u))
    BY InitTInv DEF HInv, SuspensionsHaveAlerts, Suspensions, SpikeAlerts
  <2>1. Suspensions(n, u) = {} /\ SpikeAlerts(n, u) = {}
    BY DEF Init, Suspensions, SpikeAlerts
  <2> QED BY <2>1, FS_EmptySet
<1> QED BY <1>1, NextHInv, PTL DEF Spec, HInv

-----------------------------------------------------------------------------
\* Lifts remove one suspension each.

\* The lifts of u that server n has yet to carry out: events on their way to it,
\* and requests about to delete a row that is still there.
Asked(n, u) == {e \in events : e.to = n /\ e.lifts = u}

Deleting(n, u) ==
    {t \in Threads : /\ Server[t] = n /\ call[t].pc = "delete"
                     /\ \E r \in rows[n] : r.id = call[t].row /\ r.user = u}

\* Each lift is carried out at a server at most once.
Balance(f, a, d, l) ==
    IsFiniteSet(a) /\ IsFiniteSet(d) /\ f + Cardinality(a) + Cardinality(d) <= l

Balanced ==
    \A n \in Nodes, u \in Users : Balance(freed[n][u], Asked(n, u), Deleting(n, u), lifted[u])

LInv == TInv /\ Balanced

LEMMA Smaller ==
    ASSUME NEW s, IsFiniteSet(s), NEW r \in SUBSET s
    PROVE  /\ IsFiniteSet(r) /\ Cardinality(r) \in Nat /\ Cardinality(s) \in Nat
           /\ Cardinality(r) <= Cardinality(s)
BY FS_Subset, FS_CardinalityType

LEMMA OneLess ==
    ASSUME NEW s, IsFiniteSet(s), NEW x \in s, NEW r \in SUBSET (s \ {x})
    PROVE  /\ IsFiniteSet(r) /\ Cardinality(r) \in Nat /\ Cardinality(s) \in Nat
           /\ Cardinality(r) + 1 <= Cardinality(s)
<1>1. IsFiniteSet(s \ {x}) /\ Cardinality(s \ {x}) = Cardinality(s) - 1 /\ Cardinality(s) \in Nat
  BY FS_RemoveElement, FS_CardinalityType
<1>2. IsFiniteSet(r) /\ Cardinality(r) \in Nat /\ Cardinality(r) <= Cardinality(s \ {x})
  BY <1>1, Smaller
<1> QED BY <1>1, <1>2

LEMMA OneMore ==
    ASSUME NEW s, IsFiniteSet(s), NEW x, NEW r \in SUBSET (s \cup {x})
    PROVE  /\ IsFiniteSet(r) /\ Cardinality(r) \in Nat /\ Cardinality(s) \in Nat
           /\ Cardinality(r) <= Cardinality(s) + 1
<1>1. IsFiniteSet(s \cup {x}) /\ Cardinality(s) \in Nat
      /\ Cardinality(s \cup {x}) = IF x \in s THEN Cardinality(s) ELSE Cardinality(s) + 1
  BY FS_AddElement, FS_CardinalityType
<1>2. IsFiniteSet(r) /\ Cardinality(r) \in Nat /\ Cardinality(r) <= Cardinality(s \cup {x})
  BY <1>1, Smaller
<1> QED BY <1>1, <1>2

\* The ways in which a step may change the account of a user at a server.
LEMMA BalanceStep ==
    ASSUME NEW f \in Nat, NEW l \in Nat, NEW a, NEW d, Balance(f, a, d, l),
           NEW f1 \in Nat, NEW l1 \in Nat, NEW a1, NEW d1,
           \/ f1 = f /\ l1 >= l /\ a1 \subseteq a /\ d1 \subseteq d
           \/ f1 <= f + 1 /\ l1 = l /\ a1 \subseteq a /\ \E t \in d : d1 \subseteq d \ {t}
           \/ f1 <= f + 1 /\ l1 = l /\ d1 \subseteq d /\ \E e \in a : a1 \subseteq a \ {e}
           \/ f1 = f /\ l1 = l + 1 /\ d1 \subseteq d /\ \E e : a1 \subseteq a \cup {e}
           \/ f1 = f /\ l1 = l + 1 /\ a1 \subseteq a /\ \E t : d1 \subseteq d \cup {t}
    PROVE  Balance(f1, a1, d1, l1)
<1>0. IsFiniteSet(a) /\ IsFiniteSet(d) /\ f + Cardinality(a) + Cardinality(d) <= l
      /\ Cardinality(a) \in Nat /\ Cardinality(d) \in Nat
  BY FS_CardinalityType DEF Balance
<1>a. a1 \subseteq a => IsFiniteSet(a1) /\ Cardinality(a1) \in Nat /\ Cardinality(a1) <= Cardinality(a)
  BY <1>0, Smaller
<1>d. d1 \subseteq d => IsFiniteSet(d1) /\ Cardinality(d1) \in Nat /\ Cardinality(d1) <= Cardinality(d)
  BY <1>0, Smaller
<1>1. CASE f1 = f /\ l1 >= l /\ a1 \subseteq a /\ d1 \subseteq d
  BY <1>0, <1>a, <1>d, <1>1 DEF Balance
<1>2. ASSUME f1 <= f + 1, l1 = l, a1 \subseteq a, NEW t \in d, d1 \subseteq d \ {t}
      PROVE  Balance(f1, a1, d1, l1)
  <2>1. IsFiniteSet(d1) /\ Cardinality(d1) \in Nat /\ Cardinality(d1) + 1 <= Cardinality(d)
    BY <1>0, <1>2, OneLess
  <2> QED BY <1>0, <1>a, <1>2, <2>1 DEF Balance
<1>3. ASSUME f1 <= f + 1, l1 = l, d1 \subseteq d, NEW e \in a, a1 \subseteq a \ {e}
      PROVE  Balance(f1, a1, d1, l1)
  <2>1. IsFiniteSet(a1) /\ Cardinality(a1) \in Nat /\ Cardinality(a1) + 1 <= Cardinality(a)
    BY <1>0, <1>3, OneLess
  <2> QED BY <1>0, <1>d, <1>3, <2>1 DEF Balance
<1>4. ASSUME f1 = f, l1 = l + 1, d1 \subseteq d, NEW e, a1 \subseteq a \cup {e}
      PROVE  Balance(f1, a1, d1, l1)
  <2>1. IsFiniteSet(a1) /\ Cardinality(a1) \in Nat /\ Cardinality(a1) <= Cardinality(a) + 1
    BY <1>0, <1>4, OneMore
  <2> QED BY <1>0, <1>d, <1>4, <2>1 DEF Balance
<1>5. ASSUME f1 = f, l1 = l + 1, a1 \subseteq a, NEW t, d1 \subseteq d \cup {t}
      PROVE  Balance(f1, a1, d1, l1)
  <2>1. IsFiniteSet(d1) /\ Cardinality(d1) \in Nat /\ Cardinality(d1) <= Cardinality(d) + 1
    BY <1>0, <1>5, OneMore
  <2> QED BY <1>0, <1>a, <1>5, <2>1 DEF Balance
<1> QED BY <1>1, <1>2, <1>3, <1>4, <1>5

\* How many running suspensions of a user a deletion removes.
LEMMA RunningNone ==
    ASSUME NEW s, NEW u, \A x \in s : x.user # u \/ ~(x.until > now)
    PROVE  Running(s, u) = 0
<1>1. {x \in s : x.user = u /\ x.until > now} = {}
  OBVIOUS
<1> QED BY <1>1, FS_EmptySet DEF Running

LEMMA RunningOne ==
    ASSUME NEW s, NEW u, \A x, y \in s : x = y
    PROVE  Running(s, u) \in {0, 1}
<1> DEFINE r == {x \in s : x.user = u /\ x.until > now}
<1>1. Running(s, u) = Cardinality(r)
  BY DEF Running
<1>2. r = {} \/ \E x : r = {x}
  OBVIOUS
<1> HIDE DEF r
<1> QED BY <1>1, <1>2, FS_EmptySet, FS_Singleton

\* No row that a request is about to delete comes back.
LEMMA DeletingShrinks ==
    ASSUME TInv, [Next]_vars, NEW n \in Nodes, NEW u \in Users,
           \A t \in Threads : call'[t] = call[t] \/ call'[t].pc # "delete"
    PROVE  Deleting(n, u)' \subseteq Deleting(n, u)
<1> SUFFICES ASSUME NEW t \in Threads, Server[t] = n, call'[t].pc = "delete",
                    NEW r \in rows'[n], r.id = call'[t].row, r.user = u
             PROVE  t \in Deleting(n, u)
  BY DEF Deleting
<1>1. call'[t] = call[t] /\ call[t].row < made[n] /\ call[t].row \in Nat /\ made[n] \in Nat
  BY DEF Idle, TInv, TypeOK, Known, Calls
<1>2. r \in rows[n] \/ r.id = made[n]
  BY RowSteps
<1> QED BY <1>1, <1>2 DEF Deleting


LEMMA CleanupFrees ==
    ASSUME TInv, NEW n \in Nodes, Cleanup(n), NEW m \in Nodes, NEW u \in Users
    PROVE  freed'[m][u] = freed[m][u]
<1> DEFINE s == {r \in rows[n] : r.until <= now}
<1>1. Remove(n, s) /\ s \in SUBSET rows[n]
  BY DEF Cleanup
<1>2. \A x \in s : ~(x.until > now)
  BY DEF TInv, TypeOK, Rows
<1> HIDE DEF s
<1>3. Running(s, u) = 0
  BY <1>2, RunningNone
<1>4. freed[m][u] \in Nat
  BY DEF TInv, TypeOK
<1> QED BY <1>1, <1>3, <1>4, RemoveType

LEMMA LiftFrees ==
    ASSUME TInv, [Next]_vars, NEW t \in Threads, Lift(t), NEW n \in Nodes, NEW u \in Users
    PROVE  /\ freed'[n][u] \in Nat /\ lifted' = lifted /\ Asked(n, u)' = Asked(n, u)
           /\ \/ freed'[n][u] = freed[n][u] /\ Deleting(n, u)' \subseteq Deleting(n, u)
              \/ /\ freed'[n][u] <= freed[n][u] + 1 /\ t \in Deleting(n, u)
                 /\ Deleting(n, u)' \subseteq Deleting(n, u) \ {t}
<1> DEFINE m == Server[t]
           s == {r \in rows[m] : r.id = call[t].row}
<1>0. TypeOK /\ TInv' /\ freed[n][u] \in Nat /\ freed'[n][u] \in Nat
  BY NextTInv DEF TInv, TypeOK
<1>1. /\ m \in Nodes /\ Remove(m, s) /\ s \in SUBSET rows[m] /\ call[t].pc = "delete"
      /\ call' = [call EXCEPT ![t] = Idle] /\ UNCHANGED <<events, lifted>>
  BY Constants DEF Lift
<1>2. Deleting(n, u)' \subseteq Deleting(n, u) \ {t}
  <2>1. /\ \A x \in Threads : call'[x] = call[x] \/ call'[x].pc # "delete"
        /\ call'[t].pc # "delete"
    BY <1>0, <1>1 DEF TypeOK, Idle
  <2>2. t \notin Deleting(n, u)'
    BY <2>1 DEF Deleting
  <2> QED BY <2>1, <2>2, DeletingShrinks
<1>3. Running(s, u) \in {0, 1}
  BY <1>1, RunningOne DEF TInv, Ids
<1>4. n = m /\ t \notin Deleting(n, u) => Running(s, u) = 0
  <2>1. n = m /\ t \notin Deleting(n, u) => \A x \in s : x.user # u
    BY <1>1 DEF Deleting
  <2> QED BY <2>1, RunningNone
<1> HIDE DEF s, m
<1>5. IF n = m THEN freed'[n][u] = freed[n][u] + Running(s, u) ELSE freed'[n][u] = freed[n][u]
  BY <1>1, RemoveType
<1>6. lifted' = lifted /\ Asked(n, u)' = Asked(n, u)
  BY <1>1 DEF Asked
<1>7. CASE n = m /\ t \in Deleting(n, u)
  BY <1>0, <1>2, <1>3, <1>5, <1>6, <1>7
<1>8. CASE ~(n = m /\ t \in Deleting(n, u))
  BY <1>0, <1>2, <1>4, <1>5, <1>6, <1>8
<1> QED BY <1>7, <1>8

LEMMA ApplyLiftFrees ==
    ASSUME TInv, [Next]_vars, NEW e \in events, ApplyLift(e), NEW n \in Nodes, NEW u \in Users
    PROVE  /\ freed'[n][u] \in Nat /\ lifted' = lifted
           /\ Deleting(n, u)' \subseteq Deleting(n, u)
           /\ \/ freed'[n][u] = freed[n][u] /\ Asked(n, u)' \subseteq Asked(n, u)
              \/ /\ freed'[n][u] <= freed[n][u] + 1 /\ e \in Asked(n, u)
                 /\ Asked(n, u)' \subseteq Asked(n, u) \ {e}
<1>t. TypeOK /\ TypeOK'
  BY NextTInv DEF TInv
<1>0. TypeOK /\ freed[n][u] \in Nat /\ freed'[n][u] \in Nat /\ e.to \in Nodes
  <2>1. freed[n][u] \in Nat /\ freed'[n][u] \in Nat
    BY <1>t DEF TypeOK
  <2>2. e.to \in Nodes
    BY <1>t DEF TypeOK, Events
  <2> QED BY <1>t, <2>1, <2>2
<1>1. Asked(n, u)' \subseteq Asked(n, u) \ {e}
  BY DEF ApplyLift, Asked
<1>2. lifted' = lifted /\ Deleting(n, u)' \subseteq Deleting(n, u)
  BY DeletingShrinks DEF ApplyLift
<1>3. CASE UNCHANGED freed
  BY <1>0, <1>1, <1>2, <1>3
<1>4. ASSUME NEW r \in rows[e.to], r.user = e.lifts, Remove(e.to, {r})
      PROVE  \/ freed'[n][u] = freed[n][u]
             \/ freed'[n][u] <= freed[n][u] + 1 /\ e \in Asked(n, u)
  <2>1. Running({r}, u) \in {0, 1} /\ (r.user # u => Running({r}, u) = 0)
    BY RunningOne, RunningNone
  <2>2. IF n = e.to THEN freed'[n][u] = freed[n][u] + Running({r}, u)
                    ELSE freed'[n][u] = freed[n][u]
    BY <1>0, <1>4, RemoveType
  <2> QED BY <1>0, <1>4, <2>1, <2>2 DEF Asked
<1>5. UNCHANGED freed \/ \E r \in rows[e.to] : r.user = e.lifts /\ Remove(e.to, {r})
  BY DEF ApplyLift
<1> QED BY <1>0, <1>1, <1>2, <1>3, <1>4, <1>5

LEMMA AnnounceLiftAsks ==
    ASSUME TInv, [Next]_vars, NEW t \in Threads, NEW r, AnnounceLift(t, r),
           NEW n \in Nodes, NEW u \in Users
    PROVE  /\ freed' = freed
           /\ \/ /\ lifted'[u] = lifted[u]
                 /\ Asked(n, u)' \subseteq Asked(n, u) /\ Deleting(n, u)' \subseteq Deleting(n, u)
              \/ /\ lifted'[u] = lifted[u] + 1 /\ Deleting(n, u)' \subseteq Deleting(n, u)
                 /\ \E e : Asked(n, u)' \subseteq Asked(n, u) \cup {e}
              \/ /\ lifted'[u] = lifted[u] + 1 /\ Asked(n, u)' \subseteq Asked(n, u)
                 /\ Deleting(n, u)' \subseteq Deleting(n, u) \cup {t}
<1> DEFINE m == Server[t]
           c == [Idle EXCEPT !.pc = "delete", !.row = r.id]
           e == [to |-> n, request |-> requests', lifts |-> r.user, alert |-> None]
<1>0. TypeOK /\ Ids
  BY DEF TInv
<1>1. /\ m \in Nodes /\ r \in rows[m] /\ r \in Rows
      /\ events' = events \cup
            [to: Nodes \ {m}, request: {requests'}, lifts: {r.user}, alert: {None}]
      /\ lifted' = [lifted EXCEPT ![r.user] = lifted[r.user] + 1]
      /\ call' = [call EXCEPT ![t] = c]
      /\ UNCHANGED <<rows, freed>>
  BY AnnounceLiftParts
<1>2. c.row = r.id
  BY DEF Idle
<1> HIDE DEF c
<1>3. lifted'[u] = IF u = r.user THEN lifted[u] + 1 ELSE lifted[u]
  BY <1>0, <1>1 DEF TypeOK
<1>4. \A f \in events' : f \in Asked(n, u)' => f \in Asked(n, u) \/ (f = e /\ n # m /\ u = r.user)
  BY <1>1 DEF Asked
<1>5. \A x \in Threads : x \in Deleting(n, u)' =>
          x \in Deleting(n, u) \/ (x = t /\ n = m /\ u = r.user)
  BY <1>0, <1>1, <1>2 DEF Deleting, TypeOK, Ids
<1>6. Asked(n, u)' \subseteq events' /\ Deleting(n, u)' \subseteq Threads
  BY DEF Asked, Deleting
<1> HIDE DEF e, m
<1>7. CASE u # r.user
  BY <1>1, <1>3, <1>4, <1>5, <1>6, <1>7
<1>8. CASE u = r.user /\ n = m
  BY <1>1, <1>3, <1>4, <1>5, <1>6, <1>8
<1>9. CASE u = r.user /\ n # m
  <2>1. Asked(n, u)' \subseteq Asked(n, u) \cup {e}
    BY <1>4, <1>6
  <2> QED BY <1>1, <1>3, <1>5, <1>6, <1>9, <2>1
<1> QED BY <1>7, <1>8, <1>9

LEMMA NextLInv == LInv /\ [Next]_vars => LInv'
<1> SUFFICES ASSUME LInv, [Next]_vars PROVE LInv'
  OBVIOUS
<1>0. TInv /\ TInv' /\ TypeOK /\ TypeOK'
  BY NextTInv DEF LInv, TInv
<1>1. ASSUME NEW n \in Nodes, NEW u \in Users
      PROVE  Balance(freed'[n][u], Asked(n, u)', Deleting(n, u)', lifted'[u])
  <2> DEFINE Goal == Balance(freed'[n][u], Asked(n, u)', Deleting(n, u)', lifted'[u])
  <2>0. /\ freed[n][u] \in Nat /\ freed'[n][u] \in Nat /\ lifted[u] \in Nat /\ lifted'[u] \in Nat
        /\ Balance(freed[n][u], Asked(n, u), Deleting(n, u), lifted[u])
    BY <1>0 DEF TypeOK, LInv, Balanced
  <2>1. ASSUME freed'[n][u] = freed[n][u], lifted' = lifted,
               \A e \in events' : e \in events \/ e.lifts = None,
               \A t \in Threads : call'[t] = call[t] \/ call'[t].pc # "delete"
        PROVE  Goal
    <3>1. Deleting(n, u)' \subseteq Deleting(n, u)
      BY <1>0, <2>1, DeletingShrinks
    <3>2. Asked(n, u)' \subseteq Asked(n, u)
      BY <2>1, Constants DEF Asked
    <3>3. lifted'[u] >= lifted[u]
      BY <2>0, <2>1
    <3> QED BY <2>0, <2>1, <3>1, <3>2, <3>3, BalanceStep
  <2>2. ASSUME NEW t \in Threads, Lift(t)
        PROVE  Goal
    BY <1>0, <2>0, <2>2, LiftFrees, BalanceStep
  <2>3. ASSUME NEW e \in events, ApplyLift(e)
        PROVE  Goal
    BY <1>0, <2>0, <2>3, ApplyLiftFrees, BalanceStep
  <2>4. ASSUME NEW t \in Threads, NEW r, AnnounceLift(t, r)
        PROVE  Goal
    <3> DEFINE f == freed[n][u]
               f1 == freed'[n][u]
               l == lifted[u]
               l1 == lifted'[u]
               a == Asked(n, u)
               a1 == Asked(n, u)'
               d == Deleting(n, u)
               d1 == Deleting(n, u)'
    <3>1. f1 = f
      BY <1>0, <2>4, AnnounceLiftAsks
    <3>2. \/ l1 = l /\ a1 \subseteq a /\ d1 \subseteq d
          \/ l1 = l + 1 /\ d1 \subseteq d /\ \E e : a1 \subseteq a \cup {e}
          \/ l1 = l + 1 /\ a1 \subseteq a /\ d1 \subseteq d \cup {t}
      BY <1>0, <2>4, AnnounceLiftAsks
    <3>3. f \in Nat /\ f1 \in Nat /\ l \in Nat /\ l1 \in Nat /\ Balance(f, a, d, l)
      BY <2>0
    <3>4. Goal = Balance(f1, a1, d1, l1)
      OBVIOUS
    <3> HIDE DEF Goal, f, f1, l, l1, a, a1, d, d1
    <3>5. l1 = l => l1 >= l
      BY <3>3
    <3> QED BY <3>1, <3>2, <3>3, <3>4, <3>5, BalanceStep
  <2>5. ASSUME NEW m \in Nodes, Cleanup(m)
        PROVE  Goal
    <3>1. UNCHANGED <<call, events, lifted>>
      BY <2>5 DEF Cleanup
    <3> QED BY <1>0, <2>1, <2>5, <3>1, CleanupFrees
  <2>6. ASSUME NEW t \in Threads, NEW i, Resolve(t, i)
        PROVE  Goal
    <3>1. UNCHANGED <<freed, lifted, events>>
      BY <2>6 DEF Resolve
    <3>2. \A s \in Threads : call'[s] = call[s] \/ call'[s].pc # "delete"
      <4> DEFINE c == [Idle EXCEPT !.pc = "announce", !.alert = i]
      <4>1. call' = [call EXCEPT ![t] = c]
        BY <1>0, <2>6, ResolveParts
      <4>2. c.pc = "announce"
        BY DEF Idle
      <4> HIDE DEF c
      <4> QED BY <1>0, <4>1, <4>2 DEF TypeOK
    <3> QED BY <2>1, <3>1, <3>2
  <2>7. ASSUME NEW t \in Threads, AnnounceResolved(t)
        PROVE  Goal
    <3>1. /\ UNCHANGED <<freed, lifted>> /\ call' = [call EXCEPT ![t] = Idle]
          /\ \A e \in events' : e \in events \/ e.lifts = None
      BY <2>7 DEF AnnounceResolved, Send
    <3>2. \A s \in Threads : call'[s] = call[s] \/ call'[s].pc # "delete"
      BY <1>0, <3>1 DEF TypeOK, Idle
    <3> QED BY <2>1, <3>1, <3>2
  <2>8. ASSUME NEW m \in Nodes, Crash(m)
        PROVE  Goal
    BY <2>1, <2>8 DEF Crash, Idle
  <2>9. ASSUME NEW e \in events, ApplyResolved(e)
        PROVE  Goal
    BY <2>1, <2>9 DEF ApplyResolved
  <2>10. ASSUME UNCHANGED <<call, events, lifted, freed>>
         PROVE  Goal
    BY <2>1, <2>10
  <2>11. ASSUME NEW m \in Nodes, EventLoop(m)
         PROVE  Goal
    BY <2>5, <2>10, <2>11 DEF EventLoop, LogFailure, StartPass, FailPass, Judge, Detect
  <2> HIDE DEF Goal
  <2>12. Goal
    BY <2>2, <2>3, <2>4, <2>6, <2>7, <2>8, <2>9, <2>10, <2>11 DEF Next, Request, Tick, vars
  <2> QED BY <2>12 DEF Goal
<1>2. Balanced'
  BY <1>1 DEF Balanced
<1> QED BY <1>0, <1>2 DEF LInv

\* No server sets a user free more often than administrators asked for it.
THEOREM LiftsCount == Spec => []LiftsRemoveOne
<1>1. Init => LInv
  <2> SUFFICES ASSUME Init, NEW n \in Nodes, NEW u \in Users
               PROVE  Balance(freed[n][u], Asked(n, u), Deleting(n, u), lifted[u])
    BY InitTInv DEF LInv, Balanced
  <2>1. Asked(n, u) = {} /\ Deleting(n, u) = {} /\ freed[n][u] = 0 /\ lifted[u] = 0
    BY DEF Init, Asked, Deleting, Idle
  <2> QED BY <2>1, FS_EmptySet DEF Balance
<1>2. LInv => LiftsRemoveOne
  <2> SUFFICES ASSUME LInv, NEW n \in Nodes, NEW u \in Users PROVE freed[n][u] <= lifted[u]
    BY DEF LiftsRemoveOne
  <2>1. Balance(freed[n][u], Asked(n, u), Deleting(n, u), lifted[u])
        /\ freed[n][u] \in Nat /\ lifted[u] \in Nat
    BY DEF LInv, Balanced, TInv, TypeOK
  <2> QED BY <2>1, FS_CardinalityType DEF Balance
<1> QED BY <1>1, <1>2, NextLInv, PTL DEF Spec

=============================================================================
