------------------------- MODULE RouteJournalProofs -------------------------
(***************************************************************************)
(* Every operation of the route coordinator keeps the document well typed  *)
(* and keeps JournalInv, for any number of jobs, queues and identities.    *)
(***************************************************************************)
EXTENDS RouteJournal, FiniteSetTheorems, TLAPS

\* Documents are compared and updated field by field.
LEMMA DocumentFields ==
  ASSUME NEW d \in Document
  PROVE  /\ d.seq \in Nat
         /\ d.routes \in [Native -> Route \cup {Nil}]
         /\ d.reservations \subseteq Reservation
         /\ d.consumed \subseteq Consumed
         /\ d.acked \in [Connector -> Nat]
         /\ d.handoffs \subseteq Handoff
BY DEF Document

\* The job of every record names a route of the installation.
LEMMA RouteOfNative ==
  ASSUME NEW d \in Document
  PROVE  /\ \A r \in d.reservations : r.job \in Job /\ RouteOf[r.job] \in Native
         /\ \A j \in Job : RouteOf[j] \in Native
BY DocumentFields, JournalAssumption DEF Reservation

\* The key a route asks for is an exclusion domain.
LEMMA DesiredKeyType ==
  ASSUME NEW d \in Document, NEW n \in Known(d)
  PROVE  d.routes[n] \in Route /\ DesiredKey(d, n) \in Key
<1>1. d.routes[n] \in Route
  BY DocumentFields DEF Known
<1>2. d.routes[n].evidence \in Evidence
  BY <1>1 DEF Route
<1> QED
  BY <1>1, <1>2 DEF DesiredKey, PhysicalKey, Evidence, Key, Known

\* An occupied domain is the domain of an unresolved reservation.
LEMMA OccupiedKeys ==
  ASSUME NEW d \in Document, NEW p
  PROVE  Occupied(d, p) \subseteq ActiveKeys(d) /\ ActiveKeys(d) \subseteq Key
<1>1. ActiveKeys(d) \subseteq Key
  BY DocumentFields DEF ActiveKeys, Reservation
<1> QED
  BY <1>1 DEF Occupied, ActiveKeys

-----------------------------------------------------------------------------
(* reconcile_coordination_keys.                                            *)

\* A route that is re-keyed stays a route and keeps its evidence.
LEMMA RekeyedRouteType ==
  ASSUME NEW d \in Document, NEW n \in Known(d)
  PROVE  /\ RekeyedRoute(d, n) \in Route
         /\ RekeyedRoute(d, n).evidence = d.routes[n].evidence
         /\ RekeyedRoute(d, n).present = d.routes[n].present
<1> DEFINE route == d.routes[n]
           desired == DesiredKey(d, n)
           occupied == Occupied(d, desired)
<1>1. route \in Route /\ desired \in Key
  BY DesiredKeyType
<1>2. occupied \subseteq Key
  BY OccupiedKeys
<1>3. CASE occupied = {}
  BY <1>1, <1>3 DEF RekeyedRoute, Route
<1>4. CASE occupied # {} /\ \E k \in occupied : occupied = {k}
  BY <1>1, <1>2, <1>4 DEF RekeyedRoute, Route
<1>5. CASE occupied # {} /\ ~\E k \in occupied : occupied = {k}
  BY <1>1, <1>2, <1>5 DEF RekeyedRoute, Route
<1> QED
  BY <1>3, <1>4, <1>5

\* What re-keying leaves alone.
LEMMA RekeyFrame ==
  ASSUME NEW d \in Document
  PROVE  LET e == ReconcileCoordinationKeys(d) IN
         /\ e \in Document
         /\ e.reservations = d.reservations /\ e.consumed = d.consumed
         /\ e.handoffs = d.handoffs
         /\ Known(e) = Known(d)
         /\ \A n \in Known(d) : e.routes[n] = RekeyedRoute(d, n)
         /\ \A n \in Known(d) : DesiredKey(e, n) = DesiredKey(d, n)
<1> DEFINE e == ReconcileCoordinationKeys(d)
<1>1. \A n \in Native : e.routes[n] = IF d.routes[n] = Nil THEN Nil ELSE RekeyedRoute(d, n)
  BY DocumentFields DEF ReconcileCoordinationKeys, Document
<1>2. \A n \in Known(d) : e.routes[n] = RekeyedRoute(d, n)
  BY <1>1 DEF Known
<1>3. \A n \in Known(d) : RekeyedRoute(d, n) \in Route
  BY RekeyedRouteType
<1>4. Known(e) = Known(d)
  BY <1>1, <1>3, JournalAssumption DEF Known
<1>5. e \in Document
  BY <1>3 DEF ReconcileCoordinationKeys, Document, Known
<1>6. e.reservations = d.reservations /\ e.consumed = d.consumed /\ e.handoffs = d.handoffs
  BY DEF ReconcileCoordinationKeys, Document
<1>7. \A n \in Known(d) : DesiredKey(e, n) = DesiredKey(d, n)
  BY <1>2, RekeyedRouteType DEF DesiredKey
<1> QED
  BY <1>2, <1>4, <1>5, <1>6, <1>7

\* The key of an unresolved reservation occupies what its route asks for.
LEMMA OwnKeyOccupies ==
  ASSUME NEW d \in Document, NEW r \in d.reservations, RouteOf[r.job] \in Known(d)
  PROVE  r.key \in Occupied(d, DesiredKey(d, RouteOf[r.job]))
BY DEF Occupied

\* Re-keying establishes the agreement of aliases and finds every holder.
LEMMA RekeyEstablishes ==
  ASSUME NEW d \in Document, KeysUnique(d),
         \A r \in d.reservations : d.routes[RouteOf[r.job]] = Nil => r.key = RouteOf[r.job]
  PROVE  LET e == ReconcileCoordinationKeys(d) IN
         AliasesAgree(e) /\ HolderFound(e) /\ ConflictsMarked(e)
<1> DEFINE e == ReconcileCoordinationKeys(d)
<1>1. /\ e \in Document /\ e.reservations = d.reservations /\ Known(e) = Known(d)
      /\ \A n \in Known(d) : e.routes[n] = RekeyedRoute(d, n)
      /\ \A n \in Known(d) : DesiredKey(e, n) = DesiredKey(d, n)
  BY RekeyFrame
<1>2. \A n \in Known(d) : d.routes[n] \in Route
  BY DesiredKeyType
<1>3. AliasesAgree(e)
  <2> SUFFICES ASSUME NEW n \in Known(d), NEW m \in Known(d),
                      DesiredKey(d, n) = DesiredKey(d, m)
               PROVE  /\ RekeyedRoute(d, n).conflict = RekeyedRoute(d, m).conflict
                      /\ ~RekeyedRoute(d, n).conflict =>
                           RekeyedRoute(d, n).key = RekeyedRoute(d, m).key
    BY <1>1 DEF AliasesAgree
  <2> QED
    BY <1>2 DEF RekeyedRoute, Route
<1>4. HolderFound(e)
  <2> SUFFICES ASSUME NEW r \in d.reservations, ~Conflicted(e, RouteOf[r.job])
               PROVE  r.key = RouteKey(e, RouteOf[r.job])
    BY <1>1 DEF HolderFound
  <2> DEFINE n == RouteOf[r.job]
  <2>1. n \in Native
    BY RouteOfNative
  <2>2. CASE n \notin Known(d)
    BY <1>1, <2>1, <2>2 DEF RouteKey, Known
  <2>3. CASE n \in Known(d)
    <3>1. r.key \in Occupied(d, DesiredKey(d, n))
      BY <2>3, OwnKeyOccupies
    <3>2. ~RekeyedRoute(d, n).conflict /\ e.routes[n] # Nil
      BY <1>1, <2>1, <2>3 DEF Conflicted, Known
    <3>3. RekeyedRoute(d, n).key = r.key
      BY <1>2, <2>3, <3>1, <3>2 DEF RekeyedRoute, Route
    <3> QED
      BY <1>1, <2>3, <3>2, <3>3 DEF RouteKey
  <2> QED
    BY <2>2, <2>3
<1>5. ConflictsMarked(e)
  <2> SUFFICES ASSUME NEW r \in d.reservations, NEW s \in d.reservations, r # s,
                      Desires(d, r, s)
               PROVE  RekeyedRoute(d, RouteOf[r.job]).conflict
    BY <1>1 DEF ConflictsMarked, Desires
  <2> DEFINE occupied == Occupied(d, DesiredKey(d, RouteOf[r.job]))
  <2>1. RouteOf[r.job] \in Known(d) /\ RouteOf[s.job] \in Known(d)
    BY DEF Desires
  <2>2. r.key \in occupied /\ s.key \in occupied
    BY <2>1, OwnKeyOccupies DEF Desires
  <2>3. r.key # s.key
    BY DEF KeysUnique
  <2> QED
    BY <1>2, <2>1, <2>2, <2>3 DEF RekeyedRoute, Route
<1> QED
  BY <1>3, <1>4, <1>5

-----------------------------------------------------------------------------
(* Pruning and discovery.                                                  *)

\* Pruning forgets only absent routes that no reservation needs.
LEMMA PruneFrame ==
  ASSUME NEW d \in Document
  PROVE  LET e == PruneAbsentRoutes(d) IN
         /\ e \in Document
         /\ e.reservations = d.reservations /\ e.consumed = d.consumed
         /\ e.handoffs = d.handoffs
         /\ \A n \in Native : e.routes[n] \in {d.routes[n], Nil}
         /\ \A r \in d.reservations : e.routes[RouteOf[r.job]] = d.routes[RouteOf[r.job]]
<1> DEFINE e == PruneAbsentRoutes(d)
<1>1. e \in Document
  BY DEF PruneAbsentRoutes, Document
<1>2. e.reservations = d.reservations /\ e.consumed = d.consumed /\ e.handoffs = d.handoffs
  BY DEF PruneAbsentRoutes, Document
<1>3. \A n \in Native :
        e.routes[n] = IF d.routes[n] # Nil /\ ~d.routes[n].present /\ ~RequiresRetention(d, n)
                      THEN Nil ELSE d.routes[n]
  BY DocumentFields DEF PruneAbsentRoutes, Document
<1>4. \A r \in d.reservations : RouteOf[r.job] \in Native /\ RequiresRetention(d, RouteOf[r.job])
  BY RouteOfNative DEF RequiresRetention
<1> QED
  BY <1>1, <1>2, <1>3, <1>4

\* Pruning keeps the invariant.
LEMMA PruneKeeps ==
  ASSUME NEW d \in Document, JournalInv(d)
  PROVE  JournalInv(PruneAbsentRoutes(d))
<1> DEFINE e == PruneAbsentRoutes(d)
<1>1. /\ e.reservations = d.reservations /\ e.consumed = d.consumed
      /\ \A n \in Native : e.routes[n] \in {d.routes[n], Nil}
      /\ \A r \in d.reservations : e.routes[RouteOf[r.job]] = d.routes[RouteOf[r.job]]
  BY PruneFrame
<1>2. \A n \in Known(e) : n \in Known(d) /\ e.routes[n] = d.routes[n]
  BY <1>1 DEF Known
<1>3. KeysUnique(e) /\ OnePerRoute(e) /\ AcceptedIsFinal(e)
  BY <1>1 DEF JournalInv, KeysUnique, OnePerRoute, AcceptedIsFinal
<1>4. ConflictsMarked(e)
  BY <1>1, <1>2 DEF JournalInv, ConflictsMarked, Desires, DesiredKey
<1>5. HolderFound(e)
  BY <1>1 DEF JournalInv, HolderFound, Conflicted, RouteKey
<1>6. AliasesAgree(e)
  BY <1>2 DEF JournalInv, AliasesAgree, DesiredKey
<1> QED
  BY <1>3, <1>4, <1>5, <1>6 DEF JournalInv

\* A reservation on a route nobody discovered is keyed by the route itself.
LEMMA UnknownRouteKey ==
  ASSUME NEW d \in Document, HolderFound(d), NEW r \in d.reservations,
         d.routes[RouteOf[r.job]] = Nil
  PROVE  r.key = RouteOf[r.job]
BY DEF HolderFound, Conflicted, RouteKey

\* Re-keying keeps the invariant.
LEMMA RekeyKeeps ==
  ASSUME NEW d \in Document, KeysUnique(d), OnePerRoute(d), AcceptedIsFinal(d),
         \A r \in d.reservations : d.routes[RouteOf[r.job]] = Nil => r.key = RouteOf[r.job]
  PROVE  JournalInv(ReconcileCoordinationKeys(d))
<1> DEFINE e == ReconcileCoordinationKeys(d)
<1>1. e.reservations = d.reservations /\ e.consumed = d.consumed
  BY RekeyFrame
<1>2. KeysUnique(e) /\ OnePerRoute(e) /\ AcceptedIsFinal(e)
  BY <1>1 DEF KeysUnique, OnePerRoute, AcceptedIsFinal
<1> QED
  BY <1>2, RekeyEstablishes DEF JournalInv

\* A discovered queue yields a route, and never forgets a known one.
LEMMA ObservedRouteType ==
  ASSUME NEW route \in Route \cup {Nil}, NEW n \in Native,
         NEW seen \in Evidence \cup {Absent}
  PROVE  /\ ObservedRoute(route, n, seen) \in Route \cup {Nil}
         /\ ObservedRoute(route, n, seen) = Nil => route = Nil
<1>1. seen # Absent => PhysicalKey(n, seen) \in Key /\ seen \in Evidence
  BY DEF PhysicalKey, Key, Evidence
<1>2. CASE seen = Absent /\ route = Nil
  BY <1>2 DEF ObservedRoute
<1>3. CASE seen = Absent /\ route # Nil
  BY <1>3, JournalAssumption DEF ObservedRoute, Route
<1>4. CASE seen # Absent /\ route = Nil
  BY <1>1, <1>4 DEF ObservedRoute, Route
<1>5. CASE seen # Absent /\ route # Nil
  BY <1>1, <1>5, JournalAssumption DEF ObservedRoute, Route
<1> QED
  BY <1>2, <1>3, <1>4, <1>5

\* reconcile keeps the type, the records and the invariant.
LEMMA ReconcileKeeps ==
  ASSUME NEW d \in Document, JournalInv(d), NEW obs \in [Native -> Evidence \cup {Absent}]
  PROVE  /\ Reconcile(d, obs) \in Document
         /\ JournalInv(Reconcile(d, obs))
         /\ Reconcile(d, obs).consumed = d.consumed
<1> DEFINE pruned == PruneAbsentRoutes(d)
           observed == [pruned EXCEPT !.routes =
                          [n \in Native |-> ObservedRoute(pruned.routes[n], n, obs[n])]]
           again == PruneAbsentRoutes(observed)
<1>1. pruned \in Document /\ pruned.reservations = d.reservations /\ pruned.consumed = d.consumed
  BY PruneFrame
<1>2. JournalInv(pruned)
  BY PruneKeeps
<1>3. \A n \in Native : /\ ObservedRoute(pruned.routes[n], n, obs[n]) \in Route \cup {Nil}
                        /\ ObservedRoute(pruned.routes[n], n, obs[n]) = Nil => pruned.routes[n] = Nil
  BY <1>1, DocumentFields, ObservedRouteType
<1>4. observed \in Document
  BY <1>1, <1>3 DEF Document
<1>5. /\ observed.reservations = d.reservations /\ observed.consumed = d.consumed
      /\ \A n \in Native : observed.routes[n] = ObservedRoute(pruned.routes[n], n, obs[n])
  BY <1>1 DEF Document
<1>6. /\ again \in Document /\ again.reservations = d.reservations /\ again.consumed = d.consumed
      /\ \A r \in d.reservations : again.routes[RouteOf[r.job]] = observed.routes[RouteOf[r.job]]
  BY <1>4, <1>5, PruneFrame
<1>7. \A r \in d.reservations : again.routes[RouteOf[r.job]] = Nil => r.key = RouteOf[r.job]
  <2> SUFFICES ASSUME NEW r \in d.reservations, again.routes[RouteOf[r.job]] = Nil
               PROVE  r.key = RouteOf[r.job]
    OBVIOUS
  <2>1. RouteOf[r.job] \in Native
    BY RouteOfNative
  <2>2. pruned.routes[RouteOf[r.job]] = Nil
    BY <1>3, <1>5, <1>6, <2>1
  <2> QED
    BY <1>1, <1>2, <2>2, UnknownRouteKey DEF JournalInv
<1>8. KeysUnique(again) /\ OnePerRoute(again) /\ AcceptedIsFinal(again)
  BY <1>6 DEF JournalInv, KeysUnique, OnePerRoute, AcceptedIsFinal
<1>9. Reconcile(d, obs) = ReconcileCoordinationKeys(again)
  BY DEF Reconcile
<1> QED
  BY <1>6, <1>7, <1>8, <1>9, RekeyKeeps, RekeyFrame

\* open's repair keeps them too.
LEMMA ReopenedKeeps ==
  ASSUME NEW d \in Document, JournalInv(d)
  PROVE  /\ Reopened(d) \in Document
         /\ JournalInv(Reopened(d))
         /\ Reopened(d).consumed = d.consumed
<1> DEFINE e == ReconcileCoordinationKeys(d)
<1>1. e \in Document /\ e.consumed = d.consumed
  BY RekeyFrame
<1>2. JournalInv(e)
  BY RekeyKeeps, UnknownRouteKey DEF JournalInv
<1> QED
  BY <1>1, <1>2, PruneFrame, PruneKeeps DEF Reopened

-----------------------------------------------------------------------------
(* reserve and register_authoritative.                                     *)

\* A reservation put on a free, unconflicted domain keeps the invariant: it
\* is alone there, on its route and among the aliases of its printer.
LEMMA AddReservationKeeps ==
  ASSUME NEW d \in Document, JournalInv(d), NEW e \in Document, NEW r \in Reservation,
         Holders(d, r.job) = {}, ~Conflicted(d, RouteOf[r.job]),
         r.key = RouteKey(d, RouteOf[r.job]),
         r.cloud => \A s \in d.consumed : s.job = r.job => s.outcome # "accepted",
         e.reservations = d.reservations \cup {r}, e.consumed = d.consumed,
         Known(e) = Known(d),
         \A n \in Known(d) : /\ e.routes[n].key = d.routes[n].key
                             /\ e.routes[n].conflict = d.routes[n].conflict
                             /\ e.routes[n].evidence = d.routes[n].evidence
  PROVE  JournalInv(e)
<1> DEFINE n == RouteOf[r.job]
<1>1. n \in Native /\ \A s \in d.reservations : RouteOf[s.job] \in Native
  BY RouteOfNative, JournalAssumption DEF Reservation
<1>2. \A s \in d.reservations : s.key # RouteKey(d, n)
  BY DEF Holders
<1>3. \A m \in Known(d) : DesiredKey(e, m) = DesiredKey(d, m)
  BY DEF DesiredKey
<1>4. \A m \in Native : /\ Conflicted(e, m) <=> Conflicted(d, m)
                        /\ RouteKey(e, m) = RouteKey(d, m)
  BY DEF Conflicted, RouteKey, Known
<1>5. KeysUnique(e)
  BY <1>2 DEF JournalInv, KeysUnique
<1>6. OnePerRoute(e)
  <2>1. \A s \in d.reservations : RouteOf[s.job] # n
    BY <1>2 DEF JournalInv, HolderFound
  <2> QED
    BY <2>1 DEF JournalInv, OnePerRoute
<1>7. ConflictsMarked(e)
  <2>1. \A s \in d.reservations :
          ~(n \in Known(d) /\ RouteOf[s.job] \in Known(d)
            /\ DesiredKey(d, n) = DesiredKey(d, RouteOf[s.job]))
    <3> SUFFICES ASSUME NEW s \in d.reservations, n \in Known(d), RouteOf[s.job] \in Known(d),
                        DesiredKey(d, n) = DesiredKey(d, RouteOf[s.job])
                 PROVE  FALSE
      OBVIOUS
    <3> DEFINE m == RouteOf[s.job]
    <3>1. ~d.routes[n].conflict
      BY DEF Conflicted, Known
    <3>2. ~d.routes[m].conflict /\ d.routes[n].key = d.routes[m].key
      BY <3>1 DEF JournalInv, AliasesAgree
    <3>3. s.key = d.routes[m].key
      BY <3>2 DEF JournalInv, HolderFound, Conflicted, RouteKey, Known
    <3> QED
      BY <1>2, <3>2, <3>3 DEF RouteKey, Known
  <2>2. \A s, t \in d.reservations :
          s # t /\ Desires(e, s, t) => e.routes[RouteOf[s.job]].conflict
    BY <1>3 DEF JournalInv, ConflictsMarked, Desires
  <2> QED
    BY <1>3, <2>1, <2>2 DEF ConflictsMarked, Desires
<1>8. HolderFound(e)
  BY <1>1, <1>4 DEF JournalInv, HolderFound
<1>9. AliasesAgree(e)
  BY <1>3 DEF JournalInv, AliasesAgree
<1>10. AcceptedIsFinal(e)
  BY DEF JournalInv, AcceptedIsFinal
<1> QED
  BY <1>5, <1>6, <1>7, <1>8, <1>9, <1>10 DEF JournalInv

\* reserve: a local fence.
LEMMA ReserveKeeps ==
  ASSUME NEW d \in Document, JournalInv(d), NEW j \in Job, NEW id \in Nat, CanReserve(d, j)
  PROVE  /\ LocalReservation(d, j, id) \in Reservation
         /\ Reserve(d, j, id) \in Document
         /\ JournalInv(Reserve(d, j, id))
         /\ Reserve(d, j, id).consumed = d.consumed
<1> DEFINE r == LocalReservation(d, j, id)
           e == Reserve(d, j, id)
           n == RouteOf[j]
<1>1. n \in Native
  BY JournalAssumption
<1>2. \A m \in Native : d.routes[m] # Nil => d.routes[m] \in Route
  BY DocumentFields
<1>3. RouteKey(d, n) \in Key /\ NextGeneration(d, n) \in Nat
  BY <1>1, <1>2 DEF RouteKey, NextGeneration, Key, Route
<1>4. r \in Reservation /\ r.job = j /\ r.key = RouteKey(d, n) /\ r.cloud = FALSE
  BY <1>3 DEF LocalReservation, Reservation
<1>5. \A m \in Native : d.routes[m] # Nil =>
        /\ [d.routes[m] EXCEPT !.generation = @ + 1] \in Route
        /\ [d.routes[m] EXCEPT !.generation = @ + 1].key = d.routes[m].key
        /\ [d.routes[m] EXCEPT !.generation = @ + 1].conflict = d.routes[m].conflict
        /\ [d.routes[m] EXCEPT !.generation = @ + 1].evidence = d.routes[m].evidence
  BY <1>2 DEF Route
<1>6. e \in Document
  BY <1>4, <1>5 DEF Reserve, Document
<1>7. e.reservations = d.reservations \cup {r} /\ e.consumed = d.consumed
  BY DEF Reserve, Document
<1>8. \A m \in Native :
        e.routes[m] = IF m = n /\ d.routes[m] # Nil
                      THEN [d.routes[m] EXCEPT !.generation = @ + 1] ELSE d.routes[m]
  BY DEF Reserve, Document
<1>9. /\ Known(e) = Known(d)
      /\ \A m \in Known(d) : /\ e.routes[m].key = d.routes[m].key
                              /\ e.routes[m].conflict = d.routes[m].conflict
                              /\ e.routes[m].evidence = d.routes[m].evidence
  <2> HIDE DEF e, n
  <2>1. ASSUME NEW m \in Native, m = n, d.routes[m] # Nil
        PROVE  /\ e.routes[m] # Nil
               /\ e.routes[m].key = d.routes[m].key
               /\ e.routes[m].conflict = d.routes[m].conflict
               /\ e.routes[m].evidence = d.routes[m].evidence
    <3>1. e.routes[m] = [d.routes[m] EXCEPT !.generation = @ + 1]
      BY <2>1, <1>8
    <3>2. Nil \notin Route
      BY JournalAssumption
    <3> QED
      BY <2>1, <3>1, <3>2, <1>5
  <2>2. \A m \in Native : ~(m = n /\ d.routes[m] # Nil) => e.routes[m] = d.routes[m]
    BY <1>8
  <2> QED
    BY <2>1, <2>2 DEF Known
<1>10. Holders(d, r.job) = {} /\ ~Conflicted(d, RouteOf[r.job])
  BY <1>4 DEF CanReserve
<1>11. JournalInv(e)
  BY <1>4, <1>6, <1>7, <1>9, <1>10, AddReservationKeeps
<1> QED
  BY <1>4, <1>6, <1>7, <1>11

\* register_authoritative: a fence for an offer of the server.
LEMMA RegisterKeeps ==
  ASSUME NEW d \in Document, JournalInv(d),
         NEW o \in [job : Job, id : Nat, gen : Nat]
  PROVE  /\ CloudReservation(d, o) \in Reservation
         /\ CanRegister(d, o) => /\ Register(d, o) \in Document
                                 /\ JournalInv(Register(d, o))
                                 /\ Register(d, o).consumed = d.consumed
<1> DEFINE r == CloudReservation(d, o)
           e == Register(d, o)
           n == RouteOf[o.job]
<1>1. n \in Native
  BY JournalAssumption
<1>2. RouteKey(d, n) \in Key
  BY <1>1, DocumentFields DEF RouteKey, Key, Route
<1>3. r \in Reservation /\ r.job = o.job /\ r.key = RouteKey(d, n)
  BY <1>2 DEF CloudReservation, Reservation
<1>4. ASSUME CanRegister(d, o)
      PROVE  e \in Document /\ JournalInv(e) /\ e.consumed = d.consumed
  <2>1. e \in Document
    BY <1>3 DEF Register, Document
  <2>2. /\ e.reservations = d.reservations \cup {r} /\ e.consumed = d.consumed
        /\ e.routes = d.routes
    BY DEF Register, Document
  <2>3. Known(e) = Known(d)
    BY <2>2 DEF Known
  <2>4. \A s \in d.consumed : s.job = r.job => s.outcome # "accepted"
    BY <1>3, <1>4 DEF CanRegister, NotReplayed
  <2>5. Holders(d, r.job) = {} /\ ~Conflicted(d, RouteOf[r.job])
    BY <1>3, <1>4 DEF CanRegister
  <2> QED
    BY <1>3, <2>1, <2>2, <2>3, <2>4, <2>5, AddReservationKeeps
<1> QED
  BY <1>3, <1>4

-----------------------------------------------------------------------------
(* finish, resolve_ambiguous_handoff, acknowledge_handoffs and             *)
(* compact_local_terminal_handoffs.                                        *)

\* Releasing reservations keeps the invariant when a newly accepted job
\* keeps no cloud reservation.
LEMMA ReleaseKeeps ==
  ASSUME NEW d, JournalInv(d), NEW e, e.routes = d.routes,
         e.reservations \subseteq d.reservations,
         \A s \in e.consumed : s.outcome = "accepted" =>
           s \in d.consumed \/ ~\E r \in e.reservations : r.job = s.job /\ r.cloud
  PROVE  JournalInv(e)
<1>1. Known(e) = Known(d) /\ \A n : DesiredKey(e, n) = DesiredKey(d, n)
  BY DEF Known, DesiredKey
<1>2. KeysUnique(e) /\ OnePerRoute(e)
  BY DEF JournalInv, KeysUnique, OnePerRoute
<1>3. ConflictsMarked(e)
  BY <1>1 DEF JournalInv, ConflictsMarked, Desires
<1>4. HolderFound(e)
  BY DEF JournalInv, HolderFound, Conflicted, RouteKey
<1>5. AliasesAgree(e)
  BY <1>1 DEF JournalInv, AliasesAgree
<1>6. AcceptedIsFinal(e)
  BY DEF JournalInv, AcceptedIsFinal
<1> QED
  BY <1>2, <1>3, <1>4, <1>5, <1>6 DEF JournalInv

\* The barrier record_consumed_authoritative_route leaves: typed, and grown.
LEMMA RecordConsumedGrows ==
  ASSUME NEW d \in Document, JournalInv(d), NEW r \in d.reservations,
         NEW outcome \in Outcome, NEW native \in BOOLEAN
  PROVE  LET consumed == RecordConsumed(d, r, outcome, native) IN
         /\ consumed \subseteq Consumed
         /\ \A s \in consumed : s \in d.consumed \/ s.job = r.job
         /\ \A s \in d.consumed : \E t \in consumed :
              t.job = s.job /\ t.gen >= s.gen /\ (s.outcome = "accepted" => t = s)
<1> DEFINE new == [job |-> r.job, id |-> r.id, gen |-> r.gen, outcome |-> outcome,
                   native |-> native]
           kept == {s \in d.consumed : s.job # r.job}
<1>1. r \in Reservation /\ d.consumed \subseteq Consumed
  BY DocumentFields
<1>2. r.gen \in Nat /\ \A s \in d.consumed : s.gen \in Nat
  BY <1>1 DEF Reservation, Consumed
<1>3. new \in Consumed
  BY <1>1 DEF Reservation, Consumed
<1>4. CASE ~r.cloud \/ \E s \in d.consumed : s.job = r.job /\ s.gen >= r.gen
  <2>1. RecordConsumed(d, r, outcome, native) = d.consumed
    BY <1>4 DEF RecordConsumed
  <2> QED
    BY <1>1, <1>2, <2>1
<1>5. CASE r.cloud /\ ~\E s \in d.consumed : s.job = r.job /\ s.gen >= r.gen
  <2>1. RecordConsumed(d, r, outcome, native) = kept \cup {new}
    BY <1>5 DEF RecordConsumed
  <2>2. ASSUME NEW s \in d.consumed
        PROVE  \E t \in kept \cup {new} :
                 t.job = s.job /\ t.gen >= s.gen /\ (s.outcome = "accepted" => t = s)
    <3>1. CASE s.job # r.job
      BY <1>2, <3>1
    <3>2. CASE s.job = r.job
      <4>1. s.outcome # "accepted"
        BY <1>5, <3>2 DEF JournalInv, AcceptedIsFinal
      <4>2. new.job = s.job /\ new.gen >= s.gen
        BY <1>2, <1>5, <3>2
      <4> QED
        BY <4>1, <4>2
    <3> QED
      BY <3>1, <3>2
  <2> QED
    BY <1>1, <1>3, <2>1, <2>2
<1> QED
  BY <1>1, <1>4, <1>5 DEF Reservation

\* A barrier that does not change grows.
LEMMA SameBarrierGrows ==
  ASSUME NEW d \in Document, NEW e, e.consumed = d.consumed
  PROVE  BarrierGrows(d, e)
<1>1. \A s \in d.consumed : s.gen >= s.gen
  BY DocumentFields DEF Consumed
<1> QED
  BY <1>1 DEF BarrierGrows

\* finish: the reservation goes unless the outcome is ambiguous.
LEMMA FinishKeeps ==
  ASSUME NEW d \in Document, JournalInv(d), NEW r \in d.reservations,
         NEW outcome \in Outcome, NEW native \in BOOLEAN
  PROVE  /\ Finish(d, r, outcome, native) \in Document
         /\ JournalInv(Finish(d, r, outcome, native))
         /\ BarrierGrows(d, Finish(d, r, outcome, native))
<1> DEFINE e == Finish(d, r, outcome, native)
           consumed == RecordConsumed(d, r, outcome, native)
           evidence == [seq |-> d.seq + 1, job |-> r.job, id |-> r.id, gen |-> r.gen,
                        cloud |-> r.cloud, outcome |-> outcome, native |-> native]
<1>1. d.seq \in Nat /\ r \in Reservation
  BY DocumentFields
<1>2. evidence \in Handoff
  BY <1>1 DEF Handoff, Reservation
<1>3. /\ consumed \subseteq Consumed
      /\ \A s \in consumed : s \in d.consumed \/ s.job = r.job
      /\ \A s \in d.consumed : \E t \in consumed :
           t.job = s.job /\ t.gen >= s.gen /\ (s.outcome = "accepted" => t = s)
  BY RecordConsumedGrows
<1>4. e \in Document
  <2> DEFINE handoffs == d.handoffs \cup {evidence}
             barrier == IF outcome = "ambiguous" THEN d.consumed ELSE consumed
             held == IF outcome = "ambiguous" THEN d.reservations ELSE d.reservations \ {r}
  <2>1. handoffs \subseteq Handoff /\ d.seq + 1 \in Nat
    BY <1>1, <1>2, DocumentFields
  <2>2. barrier \subseteq Consumed
    BY <1>3, DocumentFields
  <2>3. held \subseteq Reservation
    BY DocumentFields
  <2>4. e = [d EXCEPT !.seq = d.seq + 1, !.handoffs = handoffs, !.consumed = barrier,
                      !.reservations = held]
    BY DEF Finish
  <2> HIDE DEF handoffs, barrier, held, e
  <2> QED
    BY <2>1, <2>2, <2>3, <2>4 DEF Document
<1>5. /\ e.routes = d.routes
      /\ e.consumed = IF outcome = "ambiguous" THEN d.consumed ELSE consumed
      /\ e.reservations = IF outcome = "ambiguous" THEN d.reservations ELSE d.reservations \ {r}
  BY DEF Finish, Document
<1>6. \A s \in d.reservations : s.job = r.job => s = r
  BY DEF JournalInv, OnePerRoute
<1>7. JournalInv(e)
  BY <1>3, <1>5, <1>6, ReleaseKeeps
<1>8. BarrierGrows(d, e)
  <2>1. CASE outcome = "ambiguous"
    BY <1>5, <2>1, SameBarrierGrows
  <2>2. CASE outcome # "ambiguous"
    BY <1>3, <1>5, <2>2 DEF BarrierGrows
  <2> QED
    BY <2>1, <2>2
<1> QED
  BY <1>4, <1>7, <1>8

\* resolve_ambiguous_handoff: the operator's outcome replaces the ambiguous one.
LEMMA ResolveKeeps ==
  ASSUME NEW d \in Document, JournalInv(d), NEW r \in d.reservations, NEW h \in d.handoffs,
         NEW resolution
  PROVE  /\ Resolve(d, r, h, resolution) \in Document
         /\ JournalInv(Resolve(d, r, h, resolution))
         /\ BarrierGrows(d, Resolve(d, r, h, resolution))
<1> DEFINE e == Resolve(d, r, h, resolution)
           outcome == ResolvedOutcome(resolution)
           resolved == [h EXCEPT !.outcome = outcome]
           consumed == RecordConsumed(d, r, outcome, h.native)
<1>1. h \in Handoff /\ outcome \in Outcome
  BY DocumentFields DEF ResolvedOutcome, Outcome
<1>2. resolved \in Handoff /\ resolved.outcome = outcome /\ h.native \in BOOLEAN
  BY <1>1 DEF Handoff
<1>3. /\ consumed \subseteq Consumed
      /\ \A s \in consumed : s \in d.consumed \/ s.job = r.job
      /\ \A s \in d.consumed : \E t \in consumed :
           t.job = s.job /\ t.gen >= s.gen /\ (s.outcome = "accepted" => t = s)
  BY <1>1, <1>2, RecordConsumedGrows
<1>4. e \in Document
  BY <1>2, <1>3 DEF Resolve, Document
<1>5. /\ e.routes = d.routes /\ e.consumed = consumed
      /\ e.reservations = d.reservations \ {r}
  BY <1>2 DEF Resolve, Document
<1>6. \A s \in d.reservations : s.job = r.job => s = r
  BY DEF JournalInv, OnePerRoute
<1>7. JournalInv(e)
  BY <1>3, <1>5, <1>6, ReleaseKeeps
<1> QED
  BY <1>3, <1>4, <1>5, <1>7 DEF BarrierGrows

\* Acknowledging and compacting drop evidence only.
LEMMA AcknowledgeKeeps ==
  ASSUME NEW d \in Document, JournalInv(d), NEW c \in Connector, NEW through \in Nat
  PROVE  /\ Acknowledge(d, c, through) \in Document
         /\ JournalInv(Acknowledge(d, c, through))
         /\ Acknowledge(d, c, through).consumed = d.consumed
<1> DEFINE e == Acknowledge(d, c, through)
<1>1. e \in Document
  BY DEF Acknowledge, Document
<1>2. e.routes = d.routes /\ e.reservations = d.reservations /\ e.consumed = d.consumed
  BY DEF Acknowledge, Document
<1> QED
  BY <1>1, <1>2, ReleaseKeeps

\* compact_local_terminal_handoffs.
LEMMA CompactKeeps ==
  ASSUME NEW d \in Document, JournalInv(d), NEW S
  PROVE  /\ Compact(d, S) \in Document
         /\ JournalInv(Compact(d, S))
         /\ Compact(d, S).consumed = d.consumed
<1> DEFINE e == Compact(d, S)
<1>1. e \in Document
  BY DEF Compact, Document
<1>2. e.routes = d.routes /\ e.reservations = d.reservations /\ e.consumed = d.consumed
  BY DEF Compact, Document
<1> QED
  BY <1>1, <1>2, ReleaseKeeps

\* The first document of an installation.
LEMMA EmptyDocumentIsSafe ==
  EmptyDocument \in Document /\ JournalInv(EmptyDocument)
<1>1. EmptyDocument \in Document
  BY DEF EmptyDocument, Document
<1>2. EmptyDocument.reservations = {} /\ EmptyDocument.consumed = {} /\ Known(EmptyDocument) = {}
  BY DEF EmptyDocument, Known
<1> QED
  BY <1>1, <1>2 DEF JournalInv, KeysUnique, OnePerRoute, ConflictsMarked, HolderFound,
                    AliasesAgree, AcceptedIsFinal

(***************************************************************************)
(* What one job can have in the three places no transaction spans, as      *)
(* conditions on plain values: its fences F, outcomes H and barriers B in  *)
(* the journal, the state st and route proof pf of its row, the submission *)
(* run and the errand er that are under way, the set T of identifiers      *)
(* under which the OS took it, and the operators' decisions.  k is its     *)
(* kind, "cloud" or "local", n is the last identifier drawn, q the last     *)
(* sequence number of the journal.                                         *)
(*                                                                         *)
(* The lemmas say how each step of a job keeps them; they mention no       *)
(* variable.  HandoffSafetyProofs applies them to the protocol.            *)
(***************************************************************************)

\* What a journal holds of job j.
FencesIn(d, j) == {r \in d.reservations : r.job = j}
OutcomesIn(d, j) == {h \in d.handoffs : h.job = j}
BarriersIn(d, j) == {s \in d.consumed : s.job = j}

Unknown(H, id) == \A h \in H : h.id # id
NotCrossed(H) == \A h \in H : h.outcome = "rejected"
NoneAmbiguous(H) == \A h \in H : h.outcome # "ambiguous"

(* The journal: identifiers were drawn, the flags are those of the job's   *)
(* owner, a reservation has one outcome, a fence in place is unresolved    *)
(* and its outcome the newest, an ambiguity is fenced, a fence is newer    *)
(* than the barrier, and the barrier covers every outcome.                 *)
IdsOK(F, H, B, k, n) ==
  /\ \A e \in F \cup H \cup B : e.id \in 1..n
  /\ \A e \in F \cup H : (e.cloud <=> k = "cloud")
  /\ B # {} => k = "cloud"
  /\ k = "cloud" => \A e \in F \cup H \cup B : e.gen = e.id

FenceOK(F, H) ==
  /\ \A r, s \in F : r = s
  /\ \A h, g \in H : h.id = g.id => h = g
  /\ \A r \in F, h \in H : h.id = r.id =>
       h.outcome = "ambiguous" /\ \A g \in H : g.seq <= h.seq
  /\ \A h \in H : h.outcome = "ambiguous" => \E r \in F : r.id = h.id

BarrierOK(F, H, B, k) ==
  /\ \A s, t \in B : s = t
  /\ \A r \in F, s \in B : s.gen < r.gen
  /\ \A s \in B : s.outcome = "accepted" => F = {}
  /\ k = "cloud" => \A h \in H : h.outcome # "ambiguous" =>
       \E s \in B : h.gen <= s.gen /\ (s.id = h.id => s.outcome = h.outcome)

SeqOK(H, q) ==
  /\ \A h \in H : h.seq <= q
  /\ \A h, g \in H : h.seq = g.seq => h = g

LedgerOK(F, H, B, k, n, q) ==
  IdsOK(F, H, B, k, n) /\ FenceOK(F, H) /\ BarrierOK(F, H, B, k) /\ SeqOK(H, q)

(* The row of a cloud job: while it waits it has the fence of its proof,   *)
(* once submitted no other fence, and only then an ambiguity.              *)
QueueOK(F, H, B, k, st, pf) ==
  k = "cloud" =>
       /\ st \in {"pending", "queued"} => \E r \in F : r.id = pf /\ Unknown(H, r.id)
       /\ st \in {"intent", "uncertain", "accepted"} => \A r \in F : r.id = pf
       /\ ~NoneAmbiguous(H) => st \in {"intent", "uncertain"}
       /\ st \in {"pending", "queued", "intent", "uncertain"} /\ pf # 0 =>
            \A s \in B : s.gen <= pf

(* The submission: its handle is fenced and without outcome, and what it   *)
(* will write to the row is not better than what the journal says.         *)
RunOK(F, H, k, run, T) ==
  run # Nil =>
    /\ run.step \in {"reserved", "validated", "called"} => run.handle \in F /\ NotCrossed(H)
    /\ run.step # "settle" /\ k = "cloud" => \E r \in F : Unknown(H, r.id)
    /\ run.step = "settle" => run.verdict \in {"accepted", "uncertain", "retry", "failed"}
    /\ run.step = "settle" /\ k = "cloud" =>
         /\ run.verdict # "uncertain" => NoneAmbiguous(H)
         /\ run.verdict = "accepted" => F = {}
    /\ run.step = "called" =>
         /\ run.result = "rejected" => run.handle.id \notin T
         /\ run.result = "accepted" => run.handle.id \in T

(* The errand of the worker: an offer being prepared has its fence and no  *)
(* outcome; a resolution has left no fence behind that the OS crossed.     *)
Offerable == {"absent", "pending", "retry", "failed", "dropped"}
ErrandOK(F, H, k, st, er, T, REL, CON) ==
  er # Nil =>
    /\ er.kind = "prepare" =>
         /\ k = "cloud" /\ st \in Offerable
         /\ er.handle \in F /\ er.handle.id = er.offer.id /\ Unknown(H, er.offer.id)
    /\ er.kind = "resolve" =>
         /\ er.id \in (IF er.resolution = "release" THEN REL ELSE CON)
         /\ \A r \in F : k # "cloud" /\ r.id \notin T
         /\ k = "cloud" /\ er.resolution = "release" => T \subseteq REL

(* The truth: an outcome is what the OS did or what an operator said, and  *)
(* a fence the OS crossed belongs to a job that is not tried again.        *)
TruthOK(F, H, B, k, n, st, run, T, REL, CON) ==
  /\ \A e \in H \cup B :
       /\ e.outcome = "rejected" => e.id \notin T \/ e.id \in REL
       /\ e.outcome = "accepted" => e.id \in T \/ e.id \in CON
  /\ T \subseteq 1..n
  /\ \A r \in F : r.id \in T =>
       /\ st \in {"intent", "uncertain"}
       /\ run # Nil => \/ run.step = "called"
                       \/ run.step = "settle" /\ run.verdict = "uncertain"
  /\ k = "cloud" => \A t \in T : (\E r \in F : r.id = t) \/ (\E s \in B : t <= s.gen)

(* The count a of native calls the OS accepted.  A job that may be tried   *)
(* again has a release for each of them: of a cloud job under the same     *)
(* identifier, of a local job as a mark (M) of its own.                    *)
MayRun(st, run) ==
  \/ st \notin {"intent", "accepted", "uncertain"}
  \/ /\ run # Nil
     /\ \/ run.step \in {"intent", "reserved", "validated"}
        \/ run.step = "settle" /\ run.verdict \in {"retry", "failed"}
MayHaveCrossed(F, H, T) ==
  \/ \E r \in F : r.id \in T
  \/ \E h \in H : h.outcome # "rejected" /\ \A g \in H : g.seq <= h.seq
CloudCountOK(F, B, st, run, T, a, REL) ==
  /\ a <= Cardinality(T)
  /\ \A t \in T : \/ t \in REL
                  \/ \E r \in F : r.id = t
                  \/ \E s \in B : s.id = t /\ s.outcome = "accepted"
  /\ MayRun(st, run) => T \subseteq REL
LocalCountOK(F, H, st, run, T, a, M) ==
  /\ a <= 1 + Cardinality(M)
  /\ MayRun(st, run) => a <= Cardinality(M)
  /\ st = "intent" => a <= Cardinality(M) \/ MayHaveCrossed(F, H, T)
CountOK(F, H, B, k, st, run, T, a, REL, M) ==
  /\ IsFiniteSet(T) /\ IsFiniteSet(M) /\ a \in Nat
  /\ k = "cloud" => CloudCountOK(F, B, st, run, T, a, REL)
  /\ k # "cloud" => LocalCountOK(F, H, st, run, T, a, M)

-----------------------------------------------------------------------------
(* The journal.                                                            *)

\* The values a job's conditions are about.
JournalTypes(F, H, B) ==
  F \in SUBSET Reservation /\ H \in SUBSET Handoff /\ B \in SUBSET Consumed

\* Identifiers and sequence numbers drawn later change nothing.
LEMMA LedgerLater ==
  ASSUME NEW F, NEW H, NEW B, JournalTypes(F, H, B), NEW k,
         NEW n \in Nat, NEW m \in Nat, n <= m, NEW q \in Nat, NEW p \in Nat, q <= p,
         LedgerOK(F, H, B, k, n, q)
  PROVE  LedgerOK(F, H, B, k, m, p)
<1>1. IdsOK(F, H, B, k, m)
  BY DEF LedgerOK, IdsOK
<1>2. SeqOK(H, p)
  BY DEF LedgerOK, SeqOK, JournalTypes, Handoff
<1> QED
  BY <1>1, <1>2 DEF LedgerOK

\* reserve and register_authoritative fence a job that has no fence.
LEMMA LedgerFence ==
  ASSUME NEW F, NEW H, NEW B, JournalTypes(F, H, B), NEW k,
         NEW n \in Nat, NEW q \in Nat, LedgerOK(F, H, B, k, n, q), F = {},
         NEW r \in Reservation, NEW m \in Nat, n <= m, r.id \in 1..m, (r.cloud <=> k = "cloud"),
         k = "cloud" => r.gen = r.id /\ \A s \in B : s.gen < r.gen /\ s.outcome # "accepted",
         Unknown(H, r.id)
  PROVE  LedgerOK({r}, H, B, k, m, q)
<1>1. IdsOK({r}, H, B, k, m)
  BY DEF LedgerOK, IdsOK
<1>2. FenceOK({r}, H)
  BY DEF LedgerOK, FenceOK, Unknown
<1>3. BarrierOK({r}, H, B, k)
  BY DEF LedgerOK, BarrierOK, IdsOK
<1> QED
  BY <1>1, <1>2, <1>3 DEF LedgerOK

\* finish_inner journals the first outcome of a fence.
LEMMA LedgerFinish ==
  ASSUME NEW F, NEW H, NEW B, JournalTypes(F, H, B), NEW k,
         NEW n \in Nat, NEW q \in Nat, LedgerOK(F, H, B, k, n, q),
         NEW r \in F, Unknown(H, r.id),
         NEW h \in Handoff, h.id = r.id, h.gen = r.gen, h.cloud = r.cloud, h.seq = q + 1,
         NEW s \in Consumed, s.id = r.id, s.gen = r.gen, s.outcome = h.outcome,
         NEW F2, F2 = (IF h.outcome = "ambiguous" THEN F ELSE F \ {r}),
         NEW B2, B2 = (IF h.outcome = "ambiguous" \/ k # "cloud" THEN B ELSE {s})
  PROVE  LedgerOK(F2, H \cup {h}, B2, k, n, q + 1)
<1>1. F = {r}
  BY DEF LedgerOK, FenceOK
<1>2. \A g \in H : g.seq \in Nat /\ g.gen \in Nat /\ g.seq <= q
  BY DEF LedgerOK, SeqOK, JournalTypes, Handoff
<1>3. \A t \in B : t.gen \in Nat /\ t.gen < r.gen
  BY DEF LedgerOK, BarrierOK, JournalTypes, Consumed
<1>4. r.gen \in Nat
  BY <1>1 DEF JournalTypes, Reservation
<1>5. IdsOK(F2, H \cup {h}, B2, k, n)
  BY <1>1 DEF LedgerOK, IdsOK
<1>6. FenceOK(F2, H \cup {h})
  <2>1. F2 \subseteq F /\ (h.outcome = "ambiguous" => F2 = F)
    OBVIOUS
  <2>2. NoneAmbiguous(H)
    BY <1>1 DEF LedgerOK, FenceOK, Unknown, NoneAmbiguous
  <2> QED
    BY <1>1, <1>2, <2>1, <2>2 DEF LedgerOK, FenceOK, Unknown, NoneAmbiguous
<1>7. BarrierOK(F2, H \cup {h}, B2, k)
  <2>1. CASE h.outcome = "ambiguous" \/ k # "cloud"
    BY <1>1, <2>1 DEF LedgerOK, BarrierOK, IdsOK
  <2>2. CASE h.outcome # "ambiguous" /\ k = "cloud"
    <3>1. F2 = {} /\ B2 = {s}
      BY <1>1, <2>2
    <3>2. \A g \in H : g.outcome # "ambiguous" => g.gen <= s.gen
      BY <1>2, <1>3, <1>4, <2>2 DEF LedgerOK, BarrierOK
    <3>3. \A g \in H : g.id # s.id
      BY DEF Unknown
    <3> QED
      BY <1>4, <3>1, <3>2, <3>3 DEF BarrierOK
  <2> QED
    BY <2>1, <2>2
<1>8. SeqOK(H \cup {h}, q + 1)
  BY <1>2 DEF LedgerOK, SeqOK
<1> QED
  BY <1>5, <1>6, <1>7, <1>8 DEF LedgerOK

\* resolve_ambiguous_handoff_inner: the fence goes and its outcome becomes
\* the decision; acknowledged evidence is dropped.
LEMMA LedgerResolve ==
  ASSUME NEW F, NEW H, NEW B, JournalTypes(F, H, B), NEW k,
         NEW n \in Nat, NEW q \in Nat, LedgerOK(F, H, B, k, n, q),
         NEW r \in F, NEW h \in H, h.id = r.id,
         NEW g \in Handoff, g.id = h.id, g.gen = h.gen, g.cloud = h.cloud, g.seq = h.seq,
         g.outcome # "ambiguous", NEW X \in SUBSET {g},
         NEW s \in Consumed, s.id = r.id, s.gen = r.gen, s.outcome = g.outcome
  PROVE  LedgerOK(F \ {r}, (H \ {h}) \cup X, IF k = "cloud" THEN {s} ELSE B, k, n, q)
<1> DEFINE H2 == (H \ {h}) \cup X
           B2 == IF k = "cloud" THEN {s} ELSE B
<1>1. F = {r} /\ F \ {r} = {}
  BY DEF LedgerOK, FenceOK
<1>2. \A e \in H2 : e = g \/ (e \in H /\ e # h)
  OBVIOUS
<1>3. \A e \in H : e.seq \in Nat /\ e.gen \in Nat
  BY DEF JournalTypes, Handoff
<1>4. \A t \in B : t.gen \in Nat /\ t.gen < r.gen
  BY DEF LedgerOK, BarrierOK, JournalTypes, Consumed
<1>5. r.gen \in Nat /\ (k = "cloud" => h.gen = r.gen)
  BY DEF JournalTypes, Reservation, LedgerOK, IdsOK
<1>6. IdsOK({}, H2, B2, k, n)
  <2>1. g.id \in 1..n /\ (g.cloud <=> k = "cloud") /\ (k = "cloud" => g.gen = g.id)
    BY DEF LedgerOK, IdsOK
  <2>2. s.id \in 1..n /\ (k = "cloud" => s.gen = s.id)
    BY DEF LedgerOK, IdsOK
  <2>3. B2 # {} => k = "cloud"
    BY DEF LedgerOK, IdsOK
  <2>4. \A e \in B2 : e.id \in 1..n /\ (k = "cloud" => e.gen = e.id)
    BY <2>2 DEF LedgerOK, IdsOK
  <2>5. \A e \in H2 : e.id \in 1..n /\ (e.cloud <=> k = "cloud") /\ (k = "cloud" => e.gen = e.id)
    BY <1>2, <2>1 DEF LedgerOK, IdsOK
  <2> QED
    BY <2>3, <2>4, <2>5 DEF IdsOK
<1>7. FenceOK({}, H2)
  <2>1. \A e \in H : e # h => e.outcome # "ambiguous"
    BY <1>1 DEF LedgerOK, FenceOK
  <2>2. \A e, f \in H2 : e.id = f.id => e = f
    BY <1>2 DEF LedgerOK, FenceOK
  <2> QED
    BY <1>2, <2>1, <2>2 DEF FenceOK
<1>8. BarrierOK({}, H2, B2, k)
  <2>1. CASE k = "cloud"
    <3>1. \A e \in H : e # h => e.id # s.id /\ e.outcome # "ambiguous"
      BY <1>1 DEF LedgerOK, FenceOK
    <3>2. \A e \in H : e # h => e.gen <= s.gen
      BY <1>3, <1>4, <1>5, <2>1, <3>1 DEF LedgerOK, BarrierOK
    <3>3. g.gen <= s.gen
      BY <1>3, <1>5, <2>1
    <3> QED
      BY <1>2, <2>1, <3>1, <3>2, <3>3 DEF BarrierOK
  <2>2. CASE k # "cloud"
    BY <2>2 DEF LedgerOK, BarrierOK, IdsOK
  <2> QED
    BY <2>1, <2>2
<1>9. SeqOK(H2, q)
  BY <1>2 DEF LedgerOK, SeqOK
<1> QED
  BY <1>1, <1>6, <1>7, <1>8, <1>9 DEF LedgerOK

\* acknowledge_handoffs and compact_local_terminal_handoffs drop outcomes
\* that are not ambiguous.
LEMMA LedgerDrop ==
  ASSUME NEW F, NEW H, NEW B, NEW k, NEW n \in Nat, NEW q \in Nat,
         LedgerOK(F, H, B, k, n, q), NEW S \in SUBSET H,
         \A h \in H : h.outcome = "ambiguous" => h \in S
  PROVE  LedgerOK(F, S, B, k, n, q)
<1>1. IdsOK(F, S, B, k, n) /\ SeqOK(S, q)
  BY DEF LedgerOK, IdsOK, SeqOK
<1>2. FenceOK(F, S) /\ BarrierOK(F, S, B, k)
  BY DEF LedgerOK, FenceOK, BarrierOK
<1> QED
  BY <1>1, <1>2 DEF LedgerOK

-----------------------------------------------------------------------------
(* The whole condition of a job, and the steps that leave its journal      *)
(* alone.                                                                  *)

\* Only a job with a spool intent is being submitted, and the loop of the
\* local queue does one thing at a time.
JobOK(F, H, B, k, n, q, st, pf, run, er, T, a, REL, CON, M) ==
  /\ JournalTypes(F, H, B)
  /\ LedgerOK(F, H, B, k, n, q)
  /\ QueueOK(F, H, B, k, st, pf)
  /\ RunOK(F, H, k, run, T)
  /\ ErrandOK(F, H, k, st, er, T, REL, CON)
  /\ TruthOK(F, H, B, k, n, st, run, T, REL, CON)
  /\ CountOK(F, H, B, k, st, run, T, a, REL, M)
  /\ run # Nil => st = "intent" /\ (er # Nil => k = "cloud")

\* Sets of identifiers count as they grow.
LEMMA GrownCount ==
  ASSUME NEW S, NEW U, IsFiniteSet(U), S \subseteq U
  PROVE  IsFiniteSet(S) /\ Cardinality(S) \in Nat /\ Cardinality(U) \in Nat
         /\ Cardinality(S) <= Cardinality(U)
BY FS_Subset, FS_CardinalityType

\* Steps of other jobs draw identifiers, number outcomes and leave marks,
\* and decisions are added.
LEMMA JobLater ==
  ASSUME NEW F, NEW H, NEW B, NEW k, NEW n \in Nat, NEW q \in Nat, NEW st, NEW pf,
         NEW run, NEW er, NEW T, NEW a, NEW REL, NEW CON, NEW M,
         JobOK(F, H, B, k, n, q, st, pf, run, er, T, a, REL, CON, M),
         NEW m \in Nat, n <= m, NEW p \in Nat, q <= p,
         NEW REL2, REL \subseteq REL2, NEW CON2, CON \subseteq CON2,
         NEW M2, IsFiniteSet(M2), M \subseteq M2
  PROVE  JobOK(F, H, B, k, m, p, st, pf, run, er, T, a, REL2, CON2, M2)
<1>1. LedgerOK(F, H, B, k, m, p)
  BY LedgerLater DEF JobOK
<1>2. TruthOK(F, H, B, k, m, st, run, T, REL2, CON2)
  BY DEF JobOK, TruthOK
<1>3. CountOK(F, H, B, k, st, run, T, a, REL2, M2)
  <2>1. Cardinality(M) \in Nat /\ Cardinality(M2) \in Nat /\ Cardinality(M) <= Cardinality(M2)
    BY GrownCount
  <2>2. CountOK(F, H, B, k, st, run, T, a, REL, M)
    BY DEF JobOK
  <2>3. LocalCountOK(F, H, st, run, T, a, M) /\ a \in Nat => LocalCountOK(F, H, st, run, T, a, M2)
    BY <2>1 DEF LocalCountOK
  <2>4. CloudCountOK(F, B, st, run, T, a, REL) => CloudCountOK(F, B, st, run, T, a, REL2)
    BY DEF CloudCountOK
  <2> QED
    BY <2>2, <2>3, <2>4 DEF CountOK
<1>4. ErrandOK(F, H, k, st, er, T, REL2, CON2)
  BY DEF JobOK, ErrandOK
<1> QED
  BY <1>1, <1>2, <1>3, <1>4 DEF JobOK

\* A row that waits moves on to another state of waiting or is given up.
LEMMA JobWaits ==
  ASSUME NEW F, NEW H, NEW B, NEW k, NEW n \in Nat, NEW q \in Nat, NEW st, NEW pf,
         NEW run, NEW er, NEW T, NEW a, NEW REL, NEW CON, NEW M,
         JobOK(F, H, B, k, n, q, st, pf, run, er, T, a, REL, CON, M),
         st \notin {"intent", "accepted", "uncertain"}, run = Nil,
         NEW st2, st2 \notin {"intent", "accepted", "uncertain"}, NEW pf2,
         k = "cloud" /\ st2 \in {"pending", "queued"} => st \in {"pending", "queued"} /\ pf2 = pf,
         er = Nil \/ k # "cloud" \/ st2 \in Offerable
  PROVE  JobOK(F, H, B, k, n, q, st2, pf2, run, er, T, a, REL, CON, M)
<1>1. QueueOK(F, H, B, k, st2, pf2)
  BY DEF JobOK, QueueOK
<1>2. ErrandOK(F, H, k, st2, er, T, REL, CON)
  BY DEF JobOK, ErrandOK
<1>3. TruthOK(F, H, B, k, n, st2, run, T, REL, CON)
  BY DEF JobOK, TruthOK
<1>4. CountOK(F, H, B, k, st2, run, T, a, REL, M)
  BY DEF JobOK, CountOK, CloudCountOK, LocalCountOK, MayRun
<1> QED
  BY <1>1, <1>2, <1>3, <1>4 DEF JobOK

\* prepare_cloud_job_with_facts: the row waits with the proof of its fence.
LEMMA JobPrepared ==
  ASSUME NEW F, NEW H, NEW B, NEW k, NEW n \in Nat, NEW q \in Nat, NEW st, NEW pf,
         NEW run, NEW er, NEW T, NEW a, NEW REL, NEW CON, NEW M,
         JobOK(F, H, B, k, n, q, st, pf, run, er, T, a, REL, CON, M),
         er # Nil, er.kind = "prepare", st \in {"absent", "pending", "retry"}, run = Nil
  PROVE  JobOK(F, H, B, k, n, q, "pending", er.offer.id, run, Nil, T, a, REL, CON, M)
<1>1. er.handle \in F /\ er.handle.id = er.offer.id /\ Unknown(H, er.offer.id) /\ k = "cloud"
  BY DEF JobOK, ErrandOK
<1>2. QueueOK(F, H, B, k, "pending", er.offer.id)
  <2>1. \A s \in B : s.gen < er.handle.gen /\ er.handle.gen = er.handle.id
    BY <1>1 DEF JobOK, LedgerOK, BarrierOK, IdsOK
  <2>2. \A s \in B : s.gen \in Nat
    BY DEF JobOK, JournalTypes, Consumed
  <2>3. er.handle.id \in Nat
    BY <1>1 DEF JobOK, JournalTypes, Reservation
  <2>4. NoneAmbiguous(H)
    BY <1>1 DEF JobOK, QueueOK
  <2> QED
    BY <1>1, <2>1, <2>2, <2>3, <2>4 DEF QueueOK
<1>3. TruthOK(F, H, B, k, n, "pending", run, T, REL, CON)
  BY DEF JobOK, TruthOK
<1>4. CountOK(F, H, B, k, "pending", run, T, a, REL, M)
  BY DEF JobOK, CountOK, CloudCountOK, LocalCountOK, MayRun
<1> QED
  BY <1>2, <1>3, <1>4 DEF JobOK, ErrandOK

\* An errand ends, or the process stops: nothing is under way any more.
LEMMA JobStops ==
  ASSUME NEW F, NEW H, NEW B, NEW k, NEW n \in Nat, NEW q \in Nat, NEW st, NEW pf,
         NEW run, NEW er, NEW T, NEW a, NEW REL, NEW CON, NEW M,
         JobOK(F, H, B, k, n, q, st, pf, run, er, T, a, REL, CON, M),
         NEW run2 \in {run, Nil}
  PROVE  JobOK(F, H, B, k, n, q, st, pf, run2, Nil, T, a, REL, CON, M)
<1>1. RunOK(F, H, k, run2, T) /\ ErrandOK(F, H, k, st, Nil, T, REL, CON)
  BY DEF JobOK, RunOK, ErrandOK
<1>2. TruthOK(F, H, B, k, n, st, run2, T, REL, CON)
  BY DEF JobOK, TruthOK
<1>3. CountOK(F, H, B, k, st, run2, T, a, REL, M)
  BY DEF JobOK, CountOK, CloudCountOK, LocalCountOK, MayRun
<1> QED
  BY <1>1, <1>2, <1>3 DEF JobOK

\* execute_job up to the durable spool intent.
LEMMA JobBegins ==
  ASSUME NEW F, NEW H, NEW B, NEW k, NEW n \in Nat, NEW q \in Nat, NEW st, NEW pf,
         NEW run, NEW er, NEW T, NEW a, NEW REL, NEW CON, NEW M,
         JobOK(F, H, B, k, n, q, st, pf, run, er, T, a, REL, CON, M),
         st = "queued" \/ (st = "retry" /\ k # "cloud"), er # Nil => k = "cloud",
         NEW run2, run2.step = "intent"
  PROVE  JobOK(F, H, B, k, n, q, "intent", pf, run2, er, T, a, REL, CON, M)
<1>1. \A r, s \in F : r = s
  BY DEF JobOK, LedgerOK, FenceOK
<1>2. QueueOK(F, H, B, k, "intent", pf)
  BY <1>1 DEF JobOK, QueueOK
<1>3. RunOK(F, H, k, run2, T)
  BY <1>1 DEF JobOK, QueueOK, RunOK
<1>4. ErrandOK(F, H, k, "intent", er, T, REL, CON)
  BY DEF JobOK, ErrandOK, Offerable
<1>5. \A r \in F : r.id \notin T
  BY DEF JobOK, TruthOK
<1>6. TruthOK(F, H, B, k, n, "intent", run2, T, REL, CON)
  BY <1>5 DEF JobOK, TruthOK
<1>7. CountOK(F, H, B, k, "intent", run2, T, a, REL, M)
  BY DEF JobOK, CountOK, CloudCountOK, LocalCountOK, MayRun
<1> QED
  BY <1>2, <1>3, <1>4, <1>6, <1>7 DEF JobOK

\* reserve and validate hand on a fence of the job that no outcome has.
LEMMA JobHolds ==
  ASSUME NEW F, NEW H, NEW B, NEW k, NEW n \in Nat, NEW q \in Nat, NEW st, NEW pf,
         NEW run, NEW er, NEW T, NEW a, NEW REL, NEW CON, NEW M,
         JobOK(F, H, B, k, n, q, st, pf, run, er, T, a, REL, CON, M),
         run # Nil, run.step \in {"intent", "reserved"}, NotCrossed(H),
         NEW run2, run2.step \in {"reserved", "validated"}, run2.handle \in F
  PROVE  JobOK(F, H, B, k, n, q, st, pf, run2, er, T, a, REL, CON, M)
<1>1. RunOK(F, H, k, run2, T)
  BY DEF JobOK, RunOK
<1>2. TruthOK(F, H, B, k, n, st, run2, T, REL, CON)
  BY DEF JobOK, TruthOK
<1>3. CountOK(F, H, B, k, st, run2, T, a, REL, M)
  BY DEF JobOK, CountOK, CloudCountOK, LocalCountOK, MayRun
<1> QED
  BY <1>1, <1>2, <1>3 DEF JobOK

\* A submission that is given up before the native call.
LEMMA JobGivesUp ==
  ASSUME NEW F, NEW H, NEW B, NEW k, NEW n \in Nat, NEW q \in Nat, NEW st, NEW pf,
         NEW run, NEW er, NEW T, NEW a, NEW REL, NEW CON, NEW M,
         JobOK(F, H, B, k, n, q, st, pf, run, er, T, a, REL, CON, M),
         run # Nil, run.step \in {"intent", "reserved", "validated"},
         NEW run2, run2.step = "settle", run2.verdict \in {"retry", "uncertain"}
  PROVE  JobOK(F, H, B, k, n, q, st, pf, run2, er, T, a, REL, CON, M)
<1>1. \A r, s \in F : r = s
  BY DEF JobOK, LedgerOK, FenceOK
<1>2. k = "cloud" => NoneAmbiguous(H)
  BY <1>1 DEF JobOK, RunOK, LedgerOK, FenceOK, Unknown, NoneAmbiguous
<1>3. RunOK(F, H, k, run2, T)
  BY <1>2 DEF JobOK, RunOK
<1>4. \A r \in F : r.id \notin T
  BY DEF JobOK, TruthOK
<1>5. TruthOK(F, H, B, k, n, st, run2, T, REL, CON)
  BY <1>4 DEF JobOK, TruthOK
<1>6. CountOK(F, H, B, k, st, run2, T, a, REL, M)
  BY DEF JobOK, CountOK, CloudCountOK, LocalCountOK, MayRun
<1> QED
  BY <1>3, <1>5, <1>6 DEF JobOK

\* runtime.submit when the OS does not take the job.
LEMMA JobRefused ==
  ASSUME NEW F, NEW H, NEW B, NEW k, NEW n \in Nat, NEW q \in Nat, NEW st, NEW pf,
         NEW run, NEW er, NEW T, NEW a, NEW REL, NEW CON, NEW M,
         JobOK(F, H, B, k, n, q, st, pf, run, er, T, a, REL, CON, M),
         run # Nil, run.step = "validated", NEW run2, run2.step = "called",
         run2.handle = run.handle, run2.result \in {"rejected", "ambiguous"}
  PROVE  JobOK(F, H, B, k, n, q, st, pf, run2, er, T, a, REL, CON, M)
<1>1. run.handle \in F /\ run.handle.id \notin T
  BY DEF JobOK, RunOK, TruthOK
<1>2. RunOK(F, H, k, run2, T)
  BY <1>1 DEF JobOK, RunOK
<1>3. TruthOK(F, H, B, k, n, st, run2, T, REL, CON)
  BY DEF JobOK, TruthOK
<1>4. CountOK(F, H, B, k, st, run2, T, a, REL, M)
  BY DEF JobOK, CountOK, CloudCountOK, LocalCountOK, MayRun
<1> QED
  BY <1>2, <1>3, <1>4 DEF JobOK

\* runtime.submit when the OS takes it, whatever is reported.
LEMMA JobTaken ==
  ASSUME NEW F, NEW H, NEW B, NEW k, NEW n \in Nat, NEW q \in Nat, NEW st, NEW pf,
         NEW run, NEW er, NEW T, NEW a, NEW REL, NEW CON, NEW M,
         JobOK(F, H, B, k, n, q, st, pf, run, er, T, a, REL, CON, M),
         run # Nil, run.step = "validated", NEW run2, run2.step = "called",
         run2.handle = run.handle, run2.result \in {"accepted", "ambiguous"}
  PROVE  JobOK(F, H, B, k, n, q, st, pf, run2, er, T \cup {run.handle.id}, a + 1, REL, CON, M)
<1> DEFINE id == run.handle.id
           T2 == T \cup {id}
<1>1. run.handle \in F /\ id \notin T /\ NotCrossed(H) /\ st = "intent" /\ F = {run.handle}
  BY DEF JobOK, RunOK, TruthOK, LedgerOK, FenceOK
<1>2. id \in 1..n /\ Unknown(H, id) /\ \A s \in B : k = "cloud" => s.id # id
  <2>1. \A s \in B : k = "cloud" => s.gen < run.handle.gen /\ s.gen = s.id /\ run.handle.gen = id
    BY <1>1 DEF JobOK, LedgerOK, BarrierOK, IdsOK
  <2>2. \A s \in B : s.gen \in Nat
    BY DEF JobOK, JournalTypes, Consumed
  <2>3. Unknown(H, id)
    BY <1>1 DEF JobOK, LedgerOK, FenceOK, Unknown, NotCrossed
  <2>4. id \in 1..n
    BY <1>1 DEF JobOK, LedgerOK, IdsOK
  <2> QED
    BY <2>1, <2>2, <2>3, <2>4
<1>3. RunOK(F, H, k, run2, T2)
  BY <1>1 DEF JobOK, RunOK
<1>4. ErrandOK(F, H, k, st, er, T2, REL, CON)
  <2>1. er # Nil => k = "cloud" /\ er.kind # "prepare" /\ er.kind # "resolve"
    BY <1>1 DEF JobOK, ErrandOK, Offerable
  <2> QED
    BY <2>1 DEF ErrandOK
<1>5. TruthOK(F, H, B, k, n, st, run2, T2, REL, CON)
  <2>1. \A e \in H \cup B : e.id # id
    BY <1>2 DEF Unknown, JobOK, LedgerOK, IdsOK
  <2> QED
    BY <1>1, <1>2, <2>1 DEF JobOK, TruthOK
<1>6. CountOK(F, H, B, k, st, run2, T2, a + 1, REL, M)
  <2>1. IsFiniteSet(T) /\ IsFiniteSet(M) /\ a \in Nat
    BY DEF JobOK, CountOK
  <2>2. IsFiniteSet(T2) /\ Cardinality(T2) = Cardinality(T) + 1 /\ Cardinality(T) \in Nat
    BY <1>1, <2>1, FS_AddElement, FS_CardinalityType
  <2>3. Cardinality(M) \in Nat
    BY <2>1, FS_CardinalityType
  <2>4. ~MayRun(st, run2)
    BY <1>1 DEF MayRun
  <2>5. k = "cloud" => CloudCountOK(F, B, st, run2, T2, a + 1, REL)
    BY <1>1, <2>1, <2>2, <2>4 DEF JobOK, CountOK, CloudCountOK
  <2>6. k # "cloud" => LocalCountOK(F, H, st, run2, T2, a + 1, M)
    <3>1. MayHaveCrossed(F, H, T2)
      BY <1>1 DEF MayHaveCrossed
    <3>2. k # "cloud" => a <= Cardinality(M)
      BY <1>1 DEF JobOK, CountOK, LocalCountOK, MayRun
    <3> QED
      BY <2>1, <2>3, <2>4, <3>1, <3>2 DEF LocalCountOK
  <2> QED
    BY <2>1, <2>2, <2>5, <2>6 DEF CountOK
<1> QED
  BY <1>3, <1>4, <1>5, <1>6 DEF JobOK

\* record_native_acceptance and the failure transitions.
LEMMA JobSettles ==
  ASSUME NEW F, NEW H, NEW B, NEW k, NEW n \in Nat, NEW q \in Nat, NEW st, NEW pf,
         NEW run, NEW er, NEW T, NEW a, NEW REL, NEW CON, NEW M,
         JobOK(F, H, B, k, n, q, st, pf, run, er, T, a, REL, CON, M),
         run # Nil, run.step = "settle"
  PROVE  JobOK(F, H, B, k, n, q, run.verdict, IF run.verdict = "accepted" THEN 0 ELSE pf,
               Nil, er, T, a, REL, CON, M)
<1> DEFINE v == run.verdict
           pf2 == IF v = "accepted" THEN 0 ELSE pf
<1>1. st = "intent" /\ v \in {"accepted", "uncertain", "retry", "failed"}
  BY DEF JobOK, RunOK
<1>2. QueueOK(F, H, B, k, v, pf2)
  BY <1>1 DEF JobOK, RunOK, QueueOK
<1>3. ErrandOK(F, H, k, v, er, T, REL, CON)
  BY <1>1 DEF JobOK, ErrandOK, Offerable
<1>4. TruthOK(F, H, B, k, n, v, Nil, T, REL, CON)
  BY <1>1 DEF JobOK, TruthOK
<1>5. CountOK(F, H, B, k, v, Nil, T, a, REL, M)
  BY <1>1 DEF JobOK, CountOK, CloudCountOK, LocalCountOK, MayRun
<1> QED
  BY <1>2, <1>3, <1>4, <1>5 DEF JobOK, RunOK

-----------------------------------------------------------------------------
(* The steps that write the journal.                                       *)

\* register_authoritative for an offer no barrier covers: a fence that no
\* submission uses yet, and the offer being prepared if the write is known.
LEMMA JobOffered ==
  ASSUME NEW F, NEW H, NEW B, NEW k, NEW n \in Nat, NEW q \in Nat, NEW st, NEW pf,
         NEW run, NEW er, NEW T, NEW a, NEW REL, NEW CON, NEW M,
         JobOK(F, H, B, k, n, q, st, pf, run, er, T, a, REL, CON, M),
         k = "cloud", st \in Offerable, er = Nil, F = {}, NEW r \in Reservation, r.id \in 1..n,
         r.cloud, r.gen = r.id, \A s \in B : s.gen < r.gen /\ s.outcome # "accepted",
         \A h \in H : h.gen < r.gen,
         NEW er2, \/ er2 = Nil
                  \/ er2.kind = "prepare" /\ er2.handle = r /\ er2.offer.id = r.id
  PROVE  JobOK({r}, H, B, k, n, q, st, pf, run, er2, T, a, REL, CON, M)
<1>1. run = Nil
  BY DEF JobOK, Offerable
<1>2. Unknown(H, r.id)
  BY DEF JobOK, LedgerOK, IdsOK, Unknown, Reservation
<1>3. JournalTypes({r}, H, B) /\ LedgerOK({r}, H, B, k, n, q)
  <2>1. JournalTypes(F, H, B) /\ LedgerOK(F, H, B, k, n, q)
    BY DEF JobOK
  <2>2. /\ (r.cloud <=> k = "cloud") /\ n <= n
        /\ k = "cloud" => r.gen = r.id /\ \A s \in B : s.gen < r.gen /\ s.outcome # "accepted"
    OBVIOUS
  <2>3. LedgerOK({r}, H, B, k, n, q)
    BY <1>2, <2>1, <2>2, LedgerFence
  <2> QED
    BY <2>1, <2>3 DEF JournalTypes
<1>4. QueueOK({r}, H, B, k, st, pf)
  BY DEF JobOK, QueueOK, Offerable
<1>5. RunOK({r}, H, k, run, T)
  BY <1>1 DEF RunOK
<1>6. ErrandOK({r}, H, k, st, er2, T, REL, CON)
  BY <1>2 DEF ErrandOK
<1>7. r.id \notin T
  <2>1. \A t \in T : \E s \in B : t <= s.gen
    BY DEF JobOK, TruthOK
  <2>2. \A s \in B : s.gen \in Nat
    BY DEF JobOK, JournalTypes, Consumed
  <2>3. T \subseteq 1..n
    BY DEF JobOK, TruthOK
  <2> QED
    BY <2>1, <2>2, <2>3
<1>8. TruthOK({r}, H, B, k, n, st, run, T, REL, CON)
  BY <1>7 DEF JobOK, TruthOK
<1>9. CountOK({r}, H, B, k, st, run, T, a, REL, M)
  BY DEF JobOK, CountOK, CloudCountOK
<1> QED
  BY <1>1, <1>3, <1>4, <1>5, <1>6, <1>8, <1>9 DEF JobOK

\* register_authoritative for an offer that is fenced already.
LEMMA JobReoffered ==
  ASSUME NEW F, NEW H, NEW B, NEW k, NEW n \in Nat, NEW q \in Nat, NEW st, NEW pf,
         NEW run, NEW er, NEW T, NEW a, NEW REL, NEW CON, NEW M,
         JobOK(F, H, B, k, n, q, st, pf, run, er, T, a, REL, CON, M),
         k = "cloud", st \in Offerable, NEW r \in F, \A h \in H : h.gen < r.gen,
         NEW er2, er2.kind = "prepare", er2.handle = r, er2.offer.id = r.id
  PROVE  JobOK(F, H, B, k, n, q, st, pf, run, er2, T, a, REL, CON, M)
<1>1. run = Nil
  BY DEF JobOK, Offerable
<1>2. \A h \in H : h.gen = h.id /\ h.gen \in Nat /\ r.gen = r.id
  BY DEF JobOK, LedgerOK, IdsOK, JournalTypes, Handoff
<1>3. Unknown(H, r.id)
  BY <1>2 DEF JobOK, JournalTypes, Reservation, Unknown
<1>4. ErrandOK(F, H, k, st, er2, T, REL, CON)
  BY <1>3 DEF ErrandOK
<1> QED
  BY <1>1, <1>4 DEF JobOK

\* reserve of a local job: a fence under a new identifier.
LEMMA JobFenced ==
  ASSUME NEW F, NEW H, NEW B, NEW k, NEW n \in Nat, NEW q \in Nat, NEW st, NEW pf,
         NEW run, NEW er, NEW T, NEW a, NEW REL, NEW CON, NEW M,
         JobOK(F, H, B, k, n, q, st, pf, run, er, T, a, REL, CON, M),
         k # "cloud", F = {}, run # Nil, run.step = "intent",
         NEW r \in Reservation, r.id = n + 1, ~r.cloud
  PROVE  JobOK({r}, H, B, k, n + 1, q, st, pf, run, er, T, a, REL, CON, M)
<1>1. Unknown(H, r.id) /\ r.id \notin T
  BY DEF JobOK, LedgerOK, IdsOK, TruthOK, Unknown
<1>2. JournalTypes({r}, H, B) /\ LedgerOK({r}, H, B, k, n + 1, q)
  <2>1. JournalTypes(F, H, B) /\ LedgerOK(F, H, B, k, n, q)
    BY DEF JobOK
  <2>2. /\ n + 1 \in Nat /\ n <= n + 1 /\ r.id \in 1..(n + 1) /\ (r.cloud <=> k = "cloud")
        /\ k = "cloud" => r.gen = r.id /\ \A s \in B : s.gen < r.gen /\ s.outcome # "accepted"
    OBVIOUS
  <2>3. LedgerOK({r}, H, B, k, n + 1, q)
    BY <1>1, <2>1, <2>2, LedgerFence
  <2> QED
    BY <2>1, <2>3 DEF JournalTypes
<1>3. QueueOK({r}, H, B, k, st, pf) /\ RunOK({r}, H, k, run, T)
  BY DEF QueueOK, RunOK
<1>4. ErrandOK({r}, H, k, st, er, T, REL, CON)
  BY DEF JobOK, ErrandOK
<1>5. TruthOK({r}, H, B, k, n + 1, st, run, T, REL, CON)
  BY <1>1 DEF JobOK, TruthOK
<1>6. CountOK({r}, H, B, k, st, run, T, a, REL, M)
  BY DEF JobOK, CountOK, LocalCountOK, MayRun
<1> QED
  BY <1>2, <1>3, <1>4, <1>5, <1>6 DEF JobOK

\* The sweep and the compensation release a fence nothing was submitted
\* under.
LEMMA JobReleased ==
  ASSUME NEW F, NEW H, NEW B, NEW k, NEW n \in Nat, NEW q \in Nat, NEW st, NEW pf,
         NEW run, NEW er, NEW T, NEW a, NEW REL, NEW CON, NEW M,
         JobOK(F, H, B, k, n, q, st, pf, run, er, T, a, REL, CON, M),
         k = "cloud", st \in {"absent", "retry", "failed", "dropped"}, NEW r \in F,
         NEW h \in Handoff, h.id = r.id, h.gen = r.gen, h.cloud = r.cloud, h.seq = q + 1,
         h.outcome = "rejected",
         NEW s \in Consumed, s.id = r.id, s.gen = r.gen, s.outcome = "rejected"
  PROVE  JobOK(F \ {r}, H \cup {h}, {s}, k, n, q + 1, st, pf, run, Nil, T, a, REL, CON, M)
<1>1. F = {r} /\ F \ {r} = {} /\ run = Nil
  BY DEF JobOK, LedgerOK, FenceOK
<1>2. NoneAmbiguous(H) /\ r.id \notin T
  BY DEF JobOK, QueueOK, TruthOK
<1>3. Unknown(H, r.id)
  BY <1>2 DEF JobOK, LedgerOK, FenceOK, Unknown, NoneAmbiguous
<1>4. JournalTypes(F \ {r}, H \cup {h}, {s}) /\ LedgerOK(F \ {r}, H \cup {h}, {s}, k, n, q + 1)
  <2>1. JournalTypes(F, H, B) /\ LedgerOK(F, H, B, k, n, q) /\ s.outcome = h.outcome
    BY DEF JobOK
  <2>2. /\ F \ {r} = (IF h.outcome = "ambiguous" THEN F ELSE F \ {r})
        /\ {s} = (IF h.outcome = "ambiguous" \/ k # "cloud" THEN B ELSE {s})
    OBVIOUS
  <2>3. LedgerOK(F \ {r}, H \cup {h}, {s}, k, n, q + 1)
    BY <1>3, <2>1, <2>2, LedgerFinish
  <2> QED
    BY <2>1, <2>3 DEF JournalTypes
<1>5. QueueOK(F \ {r}, H \cup {h}, {s}, k, st, pf)
  BY <1>2 DEF QueueOK, NoneAmbiguous
<1>6. RunOK(F \ {r}, H \cup {h}, k, run, T) /\ ErrandOK(F \ {r}, H \cup {h}, k, st, Nil, T, REL, CON)
  BY <1>1 DEF RunOK, ErrandOK
<1>7. TruthOK(F \ {r}, H \cup {h}, {s}, k, n, st, run, T, REL, CON)
  <2>1. \A t \in T : t <= s.gen
    <3>1. r.gen = r.id /\ r.gen \in Nat
      BY DEF JobOK, LedgerOK, IdsOK, JournalTypes, Reservation
    <3>2. \A u \in B : u.gen \in Nat /\ u.gen < r.gen
      BY DEF JobOK, LedgerOK, BarrierOK, JournalTypes, Consumed
    <3>3. \A t \in T : t \in Nat /\ (t = r.id \/ \E u \in B : t <= u.gen)
      BY <1>1 DEF JobOK, TruthOK
    <3> QED
      BY <3>1, <3>2, <3>3
  <2> QED
    BY <1>1, <1>2, <2>1 DEF JobOK, TruthOK
<1>8. CountOK(F \ {r}, H \cup {h}, {s}, k, st, run, T, a, REL, M)
  BY <1>1 DEF JobOK, CountOK, CloudCountOK, MayRun
<1> QED
  BY <1>1, <1>4, <1>5, <1>6, <1>7, <1>8 DEF JobOK

\* Recovery journals an ambiguity for a fence that was left behind.
LEMMA JobLeftBehind ==
  ASSUME NEW F, NEW H, NEW B, NEW k, NEW n \in Nat, NEW q \in Nat, NEW st, NEW pf,
         NEW run, NEW er, NEW T, NEW a, NEW REL, NEW CON, NEW M,
         JobOK(F, H, B, k, n, q, st, pf, run, er, T, a, REL, CON, M),
         k = "cloud" => st \in {"intent", "uncertain"}, run = Nil, er = Nil,
         NEW r \in F, Unknown(H, r.id),
         NEW h \in Handoff, h.id = r.id, h.gen = r.gen, h.cloud = r.cloud, h.seq = q + 1,
         h.outcome = "ambiguous"
  PROVE  JobOK(F, H \cup {h}, B, k, n, q + 1, st, pf, run, er, T, a, REL, CON, M)
<1>1. PICK s \in Consumed : s.id = r.id /\ s.gen = r.gen /\ s.outcome = h.outcome
  <2>1. [job |-> r.job, id |-> r.id, gen |-> r.gen, outcome |-> h.outcome,
         native |-> FALSE] \in Consumed
    BY DEF JobOK, JournalTypes, Reservation, Handoff, Consumed
  <2> QED
    BY <2>1
<1>2. LedgerOK(F, H \cup {h}, B, k, n, q + 1)
  <2>1. JournalTypes(F, H, B) /\ LedgerOK(F, H, B, k, n, q)
    BY DEF JobOK
  <2>2. /\ F = (IF h.outcome = "ambiguous" THEN F ELSE F \ {r})
        /\ B = (IF h.outcome = "ambiguous" \/ k # "cloud" THEN B ELSE {s})
    OBVIOUS
  <2> QED
    BY <1>1, <2>1, <2>2, LedgerFinish
<1>3. JournalTypes(F, H \cup {h}, B)
  BY DEF JobOK, JournalTypes
<1>4. QueueOK(F, H \cup {h}, B, k, st, pf)
  BY DEF JobOK, QueueOK
<1>5. RunOK(F, H \cup {h}, k, run, T) /\ ErrandOK(F, H \cup {h}, k, st, er, T, REL, CON)
  BY DEF RunOK, ErrandOK
<1>6. TruthOK(F, H \cup {h}, B, k, n, st, run, T, REL, CON)
  BY DEF JobOK, TruthOK
<1>7. CountOK(F, H \cup {h}, B, k, st, run, T, a, REL, M)
  <2>1. \A g \in H : g.seq \in Nat /\ g.seq <= q
    BY DEF JobOK, LedgerOK, SeqOK, JournalTypes, Handoff
  <2>2. MayHaveCrossed(F, H \cup {h}, T)
    BY <2>1 DEF MayHaveCrossed
  <2> QED
    BY <2>2 DEF JobOK, CountOK, CloudCountOK, LocalCountOK
<1> QED
  BY <1>2, <1>3, <1>4, <1>5, <1>6, <1>7 DEF JobOK

\* finish_runtime when the outcome is in the file, whatever the write
\* reported: the fence goes unless the outcome is ambiguous.
LEMMA JobFinished ==
  ASSUME NEW F, NEW H, NEW B, NEW k, NEW n \in Nat, NEW q \in Nat, NEW st, NEW pf,
         NEW run, NEW er, NEW T, NEW a, NEW REL, NEW CON, NEW M,
         JobOK(F, H, B, k, n, q, st, pf, run, er, T, a, REL, CON, M),
         run # Nil, run.step = "called",
         NEW h \in Handoff, h.id = run.handle.id, h.gen = run.handle.gen,
         h.cloud = run.handle.cloud, h.seq = q + 1, h.outcome = run.result,
         NEW s \in Consumed, s.id = run.handle.id, s.gen = run.handle.gen, s.outcome = h.outcome,
         NEW F2, F2 = (IF h.outcome = "ambiguous" THEN F ELSE F \ {run.handle}),
         NEW B2, B2 = (IF h.outcome = "ambiguous" \/ k # "cloud" THEN B ELSE {s}),
         NEW run2, run2 # Nil, run2.step = "settle",
         run2.verdict \in (CASE h.outcome = "accepted" -> {"accepted", "uncertain"}
                             [] h.outcome = "ambiguous" -> {"uncertain"}
                             [] OTHER -> {"retry", "failed"})
  PROVE  JobOK(F2, H \cup {h}, B2, k, n, q + 1, st, pf, run2, er, T, a, REL, CON, M)
<1> DEFINE r == run.handle
           H2 == H \cup {h}
<1>1. /\ r \in F /\ F = {r} /\ NotCrossed(H) /\ st = "intent"
      /\ h.outcome = "rejected" => r.id \notin T
      /\ h.outcome = "accepted" => r.id \in T
  BY DEF JobOK, RunOK, LedgerOK, FenceOK
<1>2. Unknown(H, r.id)
  BY <1>1 DEF JobOK, LedgerOK, FenceOK, Unknown, NotCrossed
<1>3. h.outcome \in {"accepted", "ambiguous", "rejected"}
  BY DEF Handoff, Outcome
<1>4. /\ h.outcome = "accepted" => run2.verdict \in {"accepted", "uncertain"}
      /\ h.outcome = "ambiguous" => run2.verdict = "uncertain"
      /\ h.outcome = "rejected" => run2.verdict \in {"retry", "failed"}
  BY <1>3
<1>5. JournalTypes(F2, H2, B2) /\ LedgerOK(F2, H2, B2, k, n, q + 1)
  <2>1. JournalTypes(F, H, B) /\ LedgerOK(F, H, B, k, n, q)
    BY DEF JobOK
  <2>2. LedgerOK(F2, H2, B2, k, n, q + 1)
    BY <1>1, <1>2, <2>1, LedgerFinish
  <2> QED
    BY <2>1, <2>2 DEF JournalTypes
<1>6. /\ F2 \subseteq F /\ (h.outcome # "ambiguous" => F2 = {})
      /\ h.outcome = "ambiguous" => F2 = F /\ B2 = B
      /\ h.outcome # "ambiguous" /\ k = "cloud" => B2 = {s}
  BY <1>1
<1>7. \A u \in B : u.outcome # "accepted"
  BY <1>1 DEF JobOK, LedgerOK, BarrierOK
<1>8. k = "cloud" => s.gen = r.id /\ r.gen = r.id /\ r.id \in Nat
                     /\ \A u \in B : u.gen \in Nat /\ u.gen < r.id
  BY <1>1 DEF JobOK, LedgerOK, IdsOK, BarrierOK, JournalTypes, Reservation, Consumed
<1>9. QueueOK(F2, H2, B2, k, st, pf)
  BY <1>1, <1>6, <1>8 DEF JobOK, QueueOK
<1>10. RunOK(F2, H2, k, run2, T)
  BY <1>1, <1>3, <1>4, <1>6 DEF RunOK, NoneAmbiguous, NotCrossed
<1>11. ErrandOK(F2, H2, k, st, er, T, REL, CON)
  <2>1. er # Nil => k = "cloud" /\ er.kind # "prepare" /\ er.kind # "resolve"
    BY <1>1 DEF JobOK, ErrandOK, Offerable
  <2> QED
    BY <2>1 DEF ErrandOK
<1>12. TruthOK(F2, H2, B2, k, n, st, run2, T, REL, CON)
  <2>1. \A e \in H2 \cup B2 :
          /\ e.outcome = "rejected" => e.id \notin T \/ e.id \in REL
          /\ e.outcome = "accepted" => e.id \in T \/ e.id \in CON
    BY <1>1 DEF JobOK, TruthOK
  <2>2. \A f \in F2 : f.id \in T => run2.verdict = "uncertain"
    BY <1>4, <1>6
  <2>3. k = "cloud" => \A t \in T : t \in Nat /\ (t = r.id \/ \E u \in B : t <= u.gen)
    BY <1>1 DEF JobOK, TruthOK
  <2>4. k = "cloud" => \A t \in T : (\E f \in F2 : f.id = t) \/ (\E u \in B2 : t <= u.gen)
    <3>1. CASE h.outcome = "ambiguous"
      BY <1>1, <1>6, <3>1 DEF JobOK, TruthOK
    <3>2. CASE h.outcome # "ambiguous"
      BY <1>6, <1>8, <2>3, <3>2
    <3> QED
      BY <3>1, <3>2
  <2> QED
    BY <1>1, <2>1, <2>2, <2>4 DEF JobOK, TruthOK
<1>13. CountOK(F2, H2, B2, k, st, run2, T, a, REL, M)
  <2>1. MayRun(st, run2) => h.outcome = "rejected"
    BY <1>1, <1>3, <1>4 DEF MayRun
  <2>2. k = "cloud" => CloudCountOK(F2, B2, st, run2, T, a, REL)
    <3> SUFFICES ASSUME k = "cloud"
                 PROVE  CloudCountOK(F2, B2, st, run2, T, a, REL)
      OBVIOUS
    <3>1. \A t \in T : t \in REL \/ t = r.id
      BY <1>1, <1>7 DEF JobOK, CountOK, CloudCountOK
    <3>2. \A t \in T : \/ t \in REL
                       \/ \E f \in F2 : f.id = t
                       \/ \E u \in B2 : u.id = t /\ u.outcome = "accepted"
      BY <1>1, <1>3, <1>6, <3>1
    <3>3. MayRun(st, run2) => T \subseteq REL
      BY <1>1, <2>1, <3>1
    <3> QED
      BY <3>2, <3>3 DEF JobOK, CountOK, CloudCountOK
  <2>3. k # "cloud" => LocalCountOK(F2, H2, st, run2, T, a, M)
    <3>1. h.outcome = "rejected" => ~MayHaveCrossed(F, H, T)
      BY <1>1 DEF MayHaveCrossed, NotCrossed
    <3>2. \A g \in H : g.seq \in Nat /\ g.seq <= q
      BY DEF JobOK, LedgerOK, SeqOK, JournalTypes, Handoff
    <3>3. h.outcome # "rejected" => MayHaveCrossed(F2, H2, T)
      BY <3>2 DEF MayHaveCrossed
    <3> QED
      BY <1>1, <2>1, <3>1, <3>3 DEF JobOK, CountOK, LocalCountOK
  <2> QED
    BY <2>2, <2>3 DEF JobOK, CountOK
<1> QED
  BY <1>1, <1>5, <1>9, <1>10, <1>11, <1>12, <1>13 DEF JobOK

\* finish_runtime when the outcome did not reach the file.
LEMMA JobLost ==
  ASSUME NEW F, NEW H, NEW B, NEW k, NEW n \in Nat, NEW q \in Nat, NEW st, NEW pf,
         NEW run, NEW er, NEW T, NEW a, NEW REL, NEW CON, NEW M,
         JobOK(F, H, B, k, n, q, st, pf, run, er, T, a, REL, CON, M),
         run # Nil, run.step = "called",
         NEW run2, run2 # Nil, run2.step = "settle",
         run2.verdict = IF run.result = "rejected" THEN "failed" ELSE "uncertain"
  PROVE  JobOK(F, H, B, k, n, q, st, pf, run2, er, T, a, REL, CON, M)
<1>1. /\ F = {run.handle} /\ NotCrossed(H) /\ st = "intent"
      /\ run.result = "rejected" => run.handle.id \notin T
  BY DEF JobOK, RunOK, LedgerOK, FenceOK
<1>2. RunOK(F, H, k, run2, T)
  BY <1>1 DEF RunOK, NoneAmbiguous, NotCrossed
<1>3. TruthOK(F, H, B, k, n, st, run2, T, REL, CON)
  BY <1>1 DEF JobOK, TruthOK
<1>4. CountOK(F, H, B, k, st, run2, T, a, REL, M)
  <2>1. MayRun(st, run2) => run.result = "rejected"
    BY <1>1 DEF MayRun
  <2>2. \A u \in B : u.outcome # "accepted"
    BY <1>1 DEF JobOK, LedgerOK, BarrierOK
  <2>3. k = "cloud" => CloudCountOK(F, B, st, run2, T, a, REL)
    BY <1>1, <2>1, <2>2 DEF JobOK, CountOK, CloudCountOK
  <2>4. run.result = "rejected" => ~MayHaveCrossed(F, H, T)
    BY <1>1 DEF MayHaveCrossed, NotCrossed
  <2>5. k # "cloud" => LocalCountOK(F, H, st, run2, T, a, M)
    BY <1>1, <2>1, <2>4 DEF JobOK, CountOK, LocalCountOK
  <2> QED
    BY <2>3, <2>5 DEF JobOK, CountOK
<1> QED
  BY <1>1, <1>2, <1>3, <1>4 DEF JobOK

\* The journal of a job, and the decisions on it, after the ambiguity h of
\* its fence r became the outcome g with the barrier s.
Decides(F, H, B, k, r, h, g, s, H2, B2) ==
  /\ r \in F /\ h \in H /\ h.id = r.id /\ g \in Handoff /\ s \in Consumed
  /\ g.id = h.id /\ g.gen = h.gen /\ g.cloud = h.cloud /\ g.seq = h.seq
  /\ g.outcome \in {"accepted", "rejected"}
  /\ s.id = r.id /\ s.gen = r.gen /\ s.outcome = g.outcome
  /\ \E X \in SUBSET {g} : H2 = (H \ {h}) \cup X
  /\ (k = "cloud" => B2 = {s}) /\ (k # "cloud" => B2 = B)
DecidedAs(id, outcome, REL, CON, M, er2, REL2, CON2, M2) ==
  /\ REL \subseteq REL2 /\ (outcome = "rejected" => id \in REL2)
  /\ CON \subseteq CON2 /\ (outcome = "accepted" => id \in CON2)
  /\ IsFiniteSet(M2) /\ M \subseteq M2
  /\ \/ er2 = Nil
     \/ /\ er2.kind = "resolve" /\ er2.id = id
        /\ outcome = "rejected" => er2.resolution = "release"
        /\ outcome = "accepted" => er2.resolution = "confirm"

\* resolve_ambiguous_handoff, the first time: the operator's word replaces
\* the ambiguity.  An uncertain verdict may still be on its way to the row.
LEMMA JobResolved ==
  ASSUME NEW F, NEW H, NEW B, NEW k, NEW n \in Nat, NEW q \in Nat, NEW st, NEW pf,
         NEW run, NEW er, NEW T, NEW a, NEW REL, NEW CON, NEW M,
         JobOK(F, H, B, k, n, q, st, pf, run, er, T, a, REL, CON, M),
         k # "cloud" => st = "uncertain",
         NEW r, NEW h, NEW g, NEW s, NEW H2, NEW B2, Decides(F, H, B, k, r, h, g, s, H2, B2),
         NEW er2, NEW REL2, NEW CON2, NEW M2,
         DecidedAs(r.id, g.outcome, REL, CON, M, er2, REL2, CON2, M2)
  PROVE  JobOK({}, H2, B2, k, n, q, st, pf, run, er2, T, a, REL2, CON2, M2)
<1>0. PICK X \in SUBSET {g} : H2 = (H \ {h}) \cup X
  BY DEF Decides
<1> USE DEF Decides, DecidedAs
<1>1. F = {r} /\ F \ {r} = {} /\ h.outcome = "ambiguous" /\ ~NoneAmbiguous(H)
  BY DEF JobOK, LedgerOK, FenceOK, NoneAmbiguous
<1>2. st \in {"intent", "uncertain"}
  BY <1>1 DEF JobOK, QueueOK
<1>3. run # Nil => k = "cloud" /\ run.step = "settle" /\ run.verdict = "uncertain"
  <2>1. run # Nil => k = "cloud"
    BY DEF JobOK
  <2>2. run # Nil => run.step = "settle"
    BY <1>1, <2>1 DEF JobOK, RunOK, NoneAmbiguous, NotCrossed, Unknown
  <2> QED
    BY <1>1, <2>1, <2>2 DEF JobOK, RunOK
<1>4. JournalTypes({}, H2, B2) /\ LedgerOK({}, H2, B2, k, n, q)
  <2>1. JournalTypes(F, H, B) /\ LedgerOK(F, H, B, k, n, q)
    BY DEF JobOK
  <2>2. LedgerOK(F \ {r}, H2, IF k = "cloud" THEN {s} ELSE B, k, n, q)
    <3>1. /\ r \in F /\ h \in H /\ h.id = r.id /\ g \in Handoff /\ s \in Consumed
          /\ g.id = h.id /\ g.gen = h.gen /\ g.cloud = h.cloud /\ g.seq = h.seq
          /\ g.outcome # "ambiguous" /\ s.id = r.id /\ s.gen = r.gen /\ s.outcome = g.outcome
      OBVIOUS
    <3>2. LedgerOK(F \ {r}, (H \ {h}) \cup X, IF k = "cloud" THEN {s} ELSE B, k, n, q)
      BY <1>0, <2>1, <3>1, LedgerResolve
    <3> QED
      BY <1>0, <3>2
  <2> QED
    BY <1>1, <2>1, <2>2 DEF JournalTypes
<1>5. \A u \in B : u.outcome # "accepted"
  BY DEF JobOK, LedgerOK, BarrierOK
<1>6. k = "cloud" => s.gen = r.id /\ r.id \in Nat /\ \A u \in B : u.gen \in Nat /\ u.gen < r.id
  BY DEF JobOK, LedgerOK, IdsOK, BarrierOK, JournalTypes, Reservation, Consumed
<1>7. NoneAmbiguous(H2)
  <2>1. \A e \in H : e.outcome = "ambiguous" => e = h
    BY <1>1 DEF JobOK, LedgerOK, FenceOK
  <2> QED
    BY <2>1 DEF NoneAmbiguous
<1>8. QueueOK({}, H2, B2, k, st, pf)
  BY <1>1, <1>2, <1>6, <1>7 DEF JobOK, QueueOK
<1>9. RunOK({}, H2, k, run, T)
  BY <1>3, <1>7 DEF RunOK
<1>10. k = "cloud" => \A t \in T : t \in REL \/ t = r.id
  BY <1>1, <1>5 DEF JobOK, CountOK, CloudCountOK
<1>11. REL \subseteq REL2 /\ CON \subseteq CON2
       /\ (g.outcome = "rejected" => r.id \in REL2) /\ (g.outcome = "accepted" => r.id \in CON2)
  OBVIOUS
<1>12. ErrandOK({}, H2, k, st, er2, T, REL2, CON2)
  BY <1>10, <1>11 DEF ErrandOK
<1>13. TruthOK({}, H2, B2, k, n, st, run, T, REL2, CON2)
  <2>1. \A e \in H2 : e = g \/ e \in H
    OBVIOUS
  <2>2. \A e \in B2 : e = s \/ e \in B
    OBVIOUS
  <2>3. \A e \in H \cup B :
          /\ e.outcome = "rejected" => e.id \notin T \/ e.id \in REL2
          /\ e.outcome = "accepted" => e.id \in T \/ e.id \in CON2
    BY <1>11 DEF JobOK, TruthOK
  <2>4. \A e \in {g, s} :
          /\ e.outcome = "rejected" => e.id \notin T \/ e.id \in REL2
          /\ e.outcome = "accepted" => e.id \in T \/ e.id \in CON2
    BY <1>11
  <2>5. T \subseteq 1..n
    BY DEF JobOK, TruthOK
  <2>6. k = "cloud" => \A t \in T : t = r.id \/ \E u \in B : t <= u.gen
    BY <1>1 DEF JobOK, TruthOK
  <2>7. k = "cloud" => \A t \in T : t <= s.gen
    <3>1. SUFFICES ASSUME k = "cloud", NEW t \in T PROVE t <= s.gen
      OBVIOUS
    <3>2. t \in Nat /\ r.id \in Nat /\ s.gen = r.id /\ \A u \in B : u.gen \in Nat /\ u.gen < r.id
      BY <1>6, <2>5, <3>1
    <3>3. t = r.id \/ \E u \in B : t <= u.gen
      BY <2>6, <3>1
    <3> QED
      BY <3>2, <3>3
  <2> QED
    BY <2>1, <2>2, <2>3, <2>4, <2>5, <2>7 DEF TruthOK
<1>14. CountOK({}, H2, B2, k, st, run, T, a, REL2, M2)
  <2>1. ~MayRun(st, run)
    BY <1>2, <1>3 DEF MayRun
  <2>2. Cardinality(M) \in Nat /\ Cardinality(M2) \in Nat /\ Cardinality(M) <= Cardinality(M2)
    BY GrownCount
  <2>3. k = "cloud" => CloudCountOK({}, B2, st, run, T, a, REL2)
    <3>1. k = "cloud" => \A t \in T : \/ t \in REL2
                                      \/ \E u \in B2 : u.id = t /\ u.outcome = "accepted"
      BY <1>10, <1>11
    <3> QED
      BY <2>1, <3>1 DEF JobOK, CountOK, CloudCountOK
  <2>4. k # "cloud" => LocalCountOK({}, H2, st, run, T, a, M2)
    BY <2>1, <2>2 DEF JobOK, CountOK, LocalCountOK
  <2> QED
    BY <2>3, <2>4 DEF JobOK, CountOK
<1> QED
  BY <1>1, <1>3, <1>4, <1>8, <1>9, <1>12, <1>13, <1>14 DEF JobOK

\* resolve_ambiguous_handoff again: the journal has the outcome already, and
\* no fence is left that the OS crossed.
LEMMA JobReplayed ==
  ASSUME NEW F, NEW H, NEW B, NEW k, NEW n \in Nat, NEW q \in Nat, NEW st, NEW pf,
         NEW run, NEW er, NEW T, NEW a, NEW REL, NEW CON, NEW M,
         JobOK(F, H, B, k, n, q, st, pf, run, er, T, a, REL, CON, M),
         run # Nil => k = "cloud", NEW id \in Nat, NEW outcome \in {"accepted", "rejected"},
         \/ \E s \in B : s.id = id /\ s.outcome = outcome
         \/ \E h \in H : h.id = id /\ h.outcome = outcome,
         k = "cloud" => \A e \in F \cup H \cup B : e.id <= id,
         k # "cloud" =>
           /\ \E h \in H : h.outcome # "ambiguous" /\ \A g \in H : g.seq <= h.seq
           /\ \A r \in F : Unknown(H, r.id) => r.id \notin T,
         NEW er2, er2.kind = "resolve", er2.id = id,
         er2.resolution = IF outcome = "rejected" THEN "release" ELSE "confirm",
         id \in IF outcome = "rejected" THEN REL ELSE CON
  PROVE  JobOK(F, H, B, k, n, q, st, pf, run, er2, T, a, REL, CON, M)
<1>1. ASSUME k = "cloud"
      PROVE  F = {} /\ \E s \in B : s.outcome = outcome
  <2>1. /\ \A e \in F \cup H \cup B : e.gen = e.id
        /\ \A r \in F : r.id \in Nat
        /\ \A s \in B : s.id \in Nat
    BY <1>1 DEF JobOK, LedgerOK, IdsOK, JournalTypes, Reservation, Consumed
  <2>2. \E s \in B : s.id = id /\ s.outcome = outcome
    <3>1. ASSUME NEW h \in H, h.id = id, h.outcome = outcome
          PROVE  \E s \in B : s.id = id /\ s.outcome = outcome
      <4>1. PICK s \in B : h.gen <= s.gen /\ (s.id = h.id => s.outcome = h.outcome)
        BY <1>1, <3>1 DEF JobOK, LedgerOK, BarrierOK
      <4>2. s.id = id
        BY <1>1, <2>1, <3>1, <4>1
      <4> QED
        BY <3>1, <4>1, <4>2
    <3> QED
      BY <3>1
  <2>3. \A r \in F, s \in B : s.gen < r.gen
    BY DEF JobOK, LedgerOK, BarrierOK
  <2>4. F = {}
    BY <1>1, <2>1, <2>2, <2>3
  <2> QED
    BY <2>2, <2>4
<1>2. k # "cloud" => \A r \in F : r.id \notin T
  BY DEF JobOK, LedgerOK, FenceOK, SeqOK, JournalTypes, Handoff, Unknown
<1>3. k = "cloud" /\ outcome = "rejected" => T \subseteq REL
  <2>1. \A s, t \in B : s = t
    BY DEF JobOK, LedgerOK, BarrierOK
  <2> QED
    BY <1>1, <2>1 DEF JobOK, CountOK, CloudCountOK
<1>4. ErrandOK(F, H, k, st, er2, T, REL, CON)
  BY <1>1, <1>2, <1>3 DEF ErrandOK
<1> QED
  BY <1>4 DEF JobOK

\* release_uncertain_*_for_retry: the row may be tried again.
LEMMA JobRetries ==
  ASSUME NEW F, NEW H, NEW B, NEW k, NEW n \in Nat, NEW q \in Nat, NEW st, NEW pf,
         NEW run, NEW er, NEW T, NEW a, NEW REL, NEW CON, NEW M,
         JobOK(F, H, B, k, n, q, st, pf, run, er, T, a, REL, CON, M),
         er # Nil, er.kind = "resolve", er.resolution = "release", st = "uncertain",
         NEW pf2, NEW M2, IF k = "cloud" THEN M2 = M ELSE M2 = M \cup {er.id} /\ er.id \notin M
  PROVE  JobOK(F, H, B, k, n, q, "retry", pf2, run, Nil, T, a, REL, CON, M2)
<1>1. /\ run = Nil /\ \A r \in F : k # "cloud" /\ r.id \notin T
      /\ k = "cloud" => T \subseteq REL
  BY DEF JobOK, ErrandOK
<1>2. k = "cloud" => NoneAmbiguous(H)
  BY <1>1 DEF JobOK, LedgerOK, FenceOK, NoneAmbiguous
<1>3. QueueOK(F, H, B, k, "retry", pf2)
  BY <1>2 DEF QueueOK
<1>4. RunOK(F, H, k, run, T) /\ ErrandOK(F, H, k, "retry", Nil, T, REL, CON)
  BY <1>1 DEF RunOK, ErrandOK
<1>5. TruthOK(F, H, B, k, n, "retry", run, T, REL, CON)
  BY <1>1 DEF JobOK, TruthOK
<1>6. CountOK(F, H, B, k, "retry", run, T, a, REL, M2)
  <2>1. k # "cloud" => /\ IsFiniteSet(M2) /\ Cardinality(M2) = Cardinality(M) + 1
                       /\ Cardinality(M) \in Nat
    BY FS_AddElement, FS_CardinalityType DEF JobOK, CountOK
  <2>2. k = "cloud" => CloudCountOK(F, B, "retry", run, T, a, REL)
    BY <1>1 DEF JobOK, CountOK, CloudCountOK
  <2>3. k # "cloud" => LocalCountOK(F, H, "retry", run, T, a, M2)
    BY <2>1 DEF JobOK, CountOK, LocalCountOK
  <2> QED
    BY <2>1, <2>2, <2>3 DEF JobOK, CountOK
<1> QED
  BY <1>1, <1>3, <1>4, <1>5, <1>6 DEF JobOK

\* finalize_uncertain_cloud_handoff_recovery and
\* confirm_uncertain_local_handoff_accepted: the row stays uncertain.
LEMMA JobConfirmed ==
  ASSUME NEW F, NEW H, NEW B, NEW k, NEW n \in Nat, NEW q \in Nat, NEW st, NEW pf,
         NEW run, NEW er, NEW T, NEW a, NEW REL, NEW CON, NEW M,
         JobOK(F, H, B, k, n, q, st, pf, run, er, T, a, REL, CON, M),
         er # Nil, er.kind = "resolve", st = "uncertain",
         NEW pf2, pf2 = IF k = "cloud" THEN 0 ELSE pf
  PROVE  JobOK(F, H, B, k, n, q, st, pf2, run, Nil, T, a, REL, CON, M)
<1>1. k = "cloud" => F = {}
  BY DEF JobOK, ErrandOK
<1>2. QueueOK(F, H, B, k, st, pf2)
  BY <1>1 DEF JobOK, QueueOK
<1> QED
  BY <1>2 DEF JobOK, ErrandOK

\* reconcile_local_route_state projects the newest evidence of an
\* interrupted intent, once every fence it left has evidence.
LEMMA JobAdopts ==
  ASSUME NEW F, NEW H, NEW B, NEW k, NEW n \in Nat, NEW q \in Nat, NEW st, NEW pf,
         NEW run, NEW er, NEW T, NEW a, NEW REL, NEW CON, NEW M,
         JobOK(F, H, B, k, n, q, st, pf, run, er, T, a, REL, CON, M),
         k # "cloud", st = "intent", run = Nil, er = Nil, \A r \in F : ~Unknown(H, r.id),
         NEW h \in H, \A g \in H : g.seq <= h.seq,
         NEW st2 \in {"accepted", "retry", "uncertain"},
         h.outcome = "ambiguous" => st2 = "uncertain", st2 = "retry" => h.outcome = "rejected"
  PROVE  JobOK(F, H, B, k, n, q, st2, pf, run, er, T, a, REL, CON, M)
<1>1. \A g \in H : (\A e \in H : e.seq <= g.seq) => g = h
  BY DEF JobOK, LedgerOK, SeqOK, JournalTypes, Handoff
<1>2. \A r \in F : r.id = h.id /\ h.outcome = "ambiguous"
  BY <1>1 DEF JobOK, LedgerOK, FenceOK, Unknown
<1>3. TruthOK(F, H, B, k, n, st2, run, T, REL, CON)
  BY <1>2 DEF JobOK, TruthOK
<1>4. CountOK(F, H, B, k, st2, run, T, a, REL, M)
  <2>1. MayHaveCrossed(F, H, T) => h.outcome # "rejected"
    BY <1>1, <1>2 DEF MayHaveCrossed
  <2> QED
    BY <2>1 DEF JobOK, CountOK, LocalCountOK, MayRun
<1> QED
  BY <1>3, <1>4 DEF JobOK, QueueOK, RunOK, ErrandOK

\* reconcile_authoritative_route_state: what the row takes from the evidence
\* of its proof, or from its absence.
LEMMA JobRecovered ==
  ASSUME NEW F, NEW H, NEW B, NEW k, NEW n \in Nat, NEW q \in Nat, NEW st, NEW pf \in Nat,
         NEW run, NEW er, NEW T, NEW a, NEW REL, NEW CON, NEW M,
         JobOK(F, H, B, k, n, q, st, pf, run, er, T, a, REL, CON, M),
         k = "cloud", st \in {"intent", "uncertain"}, run = Nil, er = Nil, pf # 0,
         NEW st2 \in {"accepted", "retry", "uncertain"}, NEW pf2 \in {pf, 0},
         NEW outcome,
         \/ outcome = "none"
         \/ \E h \in H : h.id = pf /\ h.outcome = outcome
         \/ \E s \in B : s.id = pf /\ s.outcome = outcome,
         st2 = "retry" => outcome = "rejected",
         st2 = "accepted" \/ (st2 = "uncertain" /\ pf2 = 0) => outcome = "accepted"
  PROVE  JobOK(F, H, B, k, n, q, st2, pf2, run, er, T, a, REL, CON, M)
<1>1. /\ \A e \in F \cup H \cup B : e.gen = e.id
      /\ \A r \in F : r.id = pf
      /\ \A s \in B : s.gen \in Nat /\ s.gen <= pf
  BY DEF JobOK, LedgerOK, IdsOK, QueueOK, JournalTypes, Consumed
<1>2. outcome \in {"accepted", "rejected"} => F = {}
  BY <1>1 DEF JobOK, LedgerOK, FenceOK, BarrierOK
<1>3. F = {} => NoneAmbiguous(H)
  BY DEF JobOK, LedgerOK, FenceOK, NoneAmbiguous
<1>4. QueueOK(F, H, B, k, st2, pf2)
  BY <1>1, <1>2, <1>3 DEF JobOK, QueueOK
<1>5. TruthOK(F, H, B, k, n, st2, run, T, REL, CON)
  BY <1>2 DEF JobOK, TruthOK
<1>6. outcome = "rejected" => \A s \in B : s.outcome # "accepted"
  <2>1. ASSUME NEW h \in H, h.id = pf, h.outcome = "rejected"
        PROVE  \E s \in B : s.outcome = "rejected"
    <3>1. PICK s \in B : h.gen <= s.gen /\ (s.id = h.id => s.outcome = h.outcome)
      BY <2>1 DEF JobOK, LedgerOK, BarrierOK
    <3> QED
      BY <1>1, <2>1, <3>1
  <2>2. \A s, t \in B : s = t
    BY DEF JobOK, LedgerOK, BarrierOK
  <2> QED
    BY <2>1, <2>2
<1>7. CountOK(F, H, B, k, st2, run, T, a, REL, M)
  BY <1>2, <1>6 DEF JobOK, CountOK, CloudCountOK, MayRun
<1> QED
  BY <1>4, <1>5, <1>7 DEF JobOK, RunOK, ErrandOK

\* acknowledge_handoffs and compact_local_terminal_handoffs.
LEMMA JobDrops ==
  ASSUME NEW F, NEW H, NEW B, NEW k, NEW n \in Nat, NEW q \in Nat, NEW st, NEW pf,
         NEW run, NEW er, NEW T, NEW a, NEW REL, NEW CON, NEW M,
         JobOK(F, H, B, k, n, q, st, pf, run, er, T, a, REL, CON, M),
         NEW S \in SUBSET H, \A h \in H : h.outcome = "ambiguous" => h \in S,
         k = "cloud" \/ st # "intent"
  PROVE  JobOK(F, S, B, k, n, q, st, pf, run, er, T, a, REL, CON, M)
<1>1. JournalTypes(F, S, B)
  BY DEF JobOK, JournalTypes
<1>2. LedgerOK(F, S, B, k, n, q)
  BY LedgerDrop DEF JobOK
<1>3. QueueOK(F, S, B, k, st, pf)
  BY DEF JobOK, QueueOK, Unknown, NoneAmbiguous
<1>4. RunOK(F, S, k, run, T)
  BY DEF JobOK, RunOK, Unknown, NoneAmbiguous, NotCrossed
<1>5. ErrandOK(F, S, k, st, er, T, REL, CON)
  BY DEF JobOK, ErrandOK, Unknown
<1>6. TruthOK(F, S, B, k, n, st, run, T, REL, CON)
  BY DEF JobOK, TruthOK
<1>7. CountOK(F, S, B, k, st, run, T, a, REL, M)
  BY DEF JobOK, CountOK, LocalCountOK
<1> QED
  BY <1>1, <1>2, <1>3, <1>4, <1>5, <1>6, <1>7 DEF JobOK

-----------------------------------------------------------------------------
(* What the conditions are for.                                            *)

\* The OS took the job once, plus once for every release.
LEMMA JobCounted ==
  ASSUME NEW F, NEW H, NEW B, NEW k, NEW n \in Nat, NEW q \in Nat, NEW st, NEW pf,
         NEW run, NEW er, NEW T, NEW a, NEW REL, NEW CON, NEW M,
         JobOK(F, H, B, k, n, q, st, pf, run, er, T, a, REL, CON, M),
         IsFiniteSet(REL), M \subseteq REL
  PROVE  a <= 1 + Cardinality(REL)
<1>0. Cardinality(REL) \in Nat
  BY FS_CardinalityType
<1>1. CASE k # "cloud"
  <2>1. Cardinality(M) \in Nat /\ Cardinality(M) <= Cardinality(REL)
    BY GrownCount
  <2>2. a \in Nat /\ a <= 1 + Cardinality(M)
    BY <1>1 DEF JobOK, CountOK, LocalCountOK
  <2> QED
    BY <1>0, <2>1, <2>2
<1>2. CASE k = "cloud"
  <2>1. \E x : T \subseteq REL \cup {x}
    <3>1. \A t \in T : \/ t \in REL
                       \/ \E r \in F : r.id = t
                       \/ \E s \in B : s.id = t /\ s.outcome = "accepted"
      BY <1>2 DEF JobOK, CountOK, CloudCountOK
    <3>2. (\A r, s \in F : r = s) /\ (\A s, t \in B : s = t)
      BY DEF JobOK, LedgerOK, FenceOK, BarrierOK
    <3>3. \A s \in B : s.outcome = "accepted" => F = {}
      BY DEF JobOK, LedgerOK, BarrierOK
    <3>4. \A t, u \in T : t \in REL \/ u \in REL \/ t = u
      BY <3>1, <3>2, <3>3
    <3> QED
      BY <3>4
  <2>2. PICK x : T \subseteq REL \cup {x}
    BY <2>1
  <2>3. /\ IsFiniteSet(REL \cup {x})
        /\ Cardinality(REL \cup {x}) \in {Cardinality(REL), Cardinality(REL) + 1}
    BY FS_AddElement
  <2>4. Cardinality(T) \in Nat /\ Cardinality(T) <= Cardinality(REL \cup {x})
    BY <2>2, <2>3, GrownCount
  <2>5. a \in Nat /\ a <= Cardinality(T)
    BY <1>2 DEF JobOK, CountOK, CloudCountOK
  <2> QED
    BY <1>0, <2>3, <2>4, <2>5
<1> QED
  BY <1>1, <1>2

\* A job nobody heard of.
LEMMA JobAbsent ==
  ASSUME NEW k
  PROVE  JobOK({}, {}, {}, k, 0, 0, "absent", 0, Nil, Nil, {}, 0, {}, {}, {})
<1>1. IsFiniteSet({}) /\ Cardinality({}) = 0
  BY FS_EmptySet
<1>2. CountOK({}, {}, {}, k, "absent", Nil, {}, 0, {}, {})
  BY <1>1 DEF CountOK, CloudCountOK, LocalCountOK
<1>3. LedgerOK({}, {}, {}, k, 0, 0) /\ JournalTypes({}, {}, {})
  BY DEF LedgerOK, IdsOK, FenceOK, BarrierOK, SeqOK, JournalTypes
<1>4. QueueOK({}, {}, {}, k, "absent", 0) /\ TruthOK({}, {}, {}, k, 0, "absent", Nil, {}, {}, {})
  BY DEF QueueOK, TruthOK, NoneAmbiguous
<1> QED
  BY <1>2, <1>3, <1>4 DEF JobOK, RunOK, ErrandOK

-----------------------------------------------------------------------------
(* What an operation of the coordinator does to what it holds of a job.    *)

View(d, j) == <<FencesIn(d, j), OutcomesIn(d, j), BarriersIn(d, j)>>
SameLedger(d, e) ==
  /\ d.seq = e.seq /\ d.reservations = e.reservations
  /\ d.handoffs = e.handoffs /\ d.consumed = e.consumed

\* Documents with the same records hold the same of every job.
LEMMA SameViews ==
  ASSUME NEW d, NEW e, SameLedger(d, e)
  PROVE  \A j : View(d, j) = View(e, j)
BY DEF SameLedger, View, FencesIn, OutcomesIn, BarriersIn

\* reconcile and open change routes only.
LEMMA RoutesOnly ==
  ASSUME NEW d \in Document
  PROVE  /\ SameLedger(Reopened(d), d)
         /\ \A obs : SameLedger(Reconcile(d, obs), d)
<1>1. ASSUME NEW e, \E r : e = [d EXCEPT !.routes = r]
      PROVE  e.seq = d.seq /\ e.reservations = d.reservations /\ e.handoffs = d.handoffs
             /\ e.consumed = d.consumed
  BY <1>1 DEF Document
<1>2. ASSUME NEW e, NEW r1, NEW r2, e = [[d EXCEPT !.routes = r1] EXCEPT !.routes = r2]
      PROVE  e = [d EXCEPT !.routes = r2]
  BY <1>2 DEF Document
<1>3. \E r : Reopened(d) = [d EXCEPT !.routes = r]
  BY <1>2 DEF Reopened, PruneAbsentRoutes, ReconcileCoordinationKeys
<1>4. ASSUME NEW obs
      PROVE  \E r : Reconcile(d, obs) = [d EXCEPT !.routes = r]
  BY <1>2 DEF Reconcile, PruneAbsentRoutes, ReconcileCoordinationKeys
<1> QED
  BY <1>1, <1>3, <1>4 DEF SameLedger

\* reserve and register_authoritative add a fence.
LEMMA ViewFence ==
  ASSUME NEW d \in Document, NEW r \in Reservation, NEW e,
         e.seq = d.seq, e.reservations = d.reservations \cup {r}, e.handoffs = d.handoffs,
         e.consumed = d.consumed
  PROVE  /\ FencesIn(e, r.job) = FencesIn(d, r.job) \cup {r}
         /\ OutcomesIn(e, r.job) = OutcomesIn(d, r.job)
         /\ BarriersIn(e, r.job) = BarriersIn(d, r.job)
         /\ \A j : j # r.job => View(e, j) = View(d, j)
BY DEF View, FencesIn, OutcomesIn, BarriersIn

\* What a document holds of a job has the types of the journal.
LEMMA ViewTypes ==
  ASSUME NEW d \in Document, NEW j
  PROVE  JournalTypes(FencesIn(d, j), OutcomesIn(d, j), BarriersIn(d, j))
BY DocumentFields DEF JournalTypes, FencesIn, OutcomesIn, BarriersIn

\* Document e is d after the outcome of reservation r was journaled as h and
\* its barrier set to s.
JournaledAs(d, e, r, outcome, h, s) ==
  /\ h.id = r.id /\ h.gen = r.gen /\ h.cloud = r.cloud /\ h.seq = d.seq + 1
  /\ h.outcome = outcome /\ s.id = r.id /\ s.gen = r.gen /\ s.outcome = outcome
  /\ e.seq = d.seq + 1
  /\ FencesIn(e, r.job) = (IF outcome = "ambiguous" THEN FencesIn(d, r.job)
                           ELSE FencesIn(d, r.job) \ {r})
  /\ OutcomesIn(e, r.job) = OutcomesIn(d, r.job) \cup {h}
  /\ BarriersIn(e, r.job) = (IF outcome = "ambiguous" \/ ~r.cloud THEN BarriersIn(d, r.job) ELSE {s})
  /\ \A i : i # r.job => View(e, i) = View(d, i)

\* finish_inner.
LEMMA ViewFinish ==
  ASSUME NEW d \in Document, NEW r \in d.reservations, NEW outcome \in Outcome,
         \A s \in BarriersIn(d, r.job) : s.gen < r.gen,
         NEW f, f = Finish(d, r, outcome, TRUE) \/ f = Finish(d, r, outcome, FALSE)
  PROVE  \E h \in Handoff, s \in Consumed : JournaledAs(d, f, r, outcome, h, s)
<1>0. PICK native \in BOOLEAN : f = Finish(d, r, outcome, native)
  OBVIOUS
<1> DEFINE e == Finish(d, r, outcome, native)
           j == r.job
           h == [seq |-> d.seq + 1, job |-> r.job, id |-> r.id, gen |-> r.gen,
                 cloud |-> r.cloud, outcome |-> outcome, native |-> native]
           s == [job |-> r.job, id |-> r.id, gen |-> r.gen, outcome |-> outcome,
                 native |-> native]
<1>1. d.seq \in Nat /\ r \in Reservation /\ r.gen \in Nat
  BY DocumentFields DEF Reservation
<1>2. h \in Handoff /\ s \in Consumed
  BY <1>1 DEF Handoff, Consumed, Reservation
<1>3. /\ h.id = r.id /\ h.gen = r.gen /\ h.cloud = r.cloud /\ h.seq = d.seq + 1
      /\ h.outcome = outcome /\ h.job = j
      /\ s.id = r.id /\ s.gen = r.gen /\ s.outcome = outcome /\ s.job = j
  OBVIOUS
<1>4. /\ e.seq = d.seq + 1 /\ e.handoffs = d.handoffs \cup {h}
      /\ e.consumed = (IF outcome = "ambiguous" THEN d.consumed
                       ELSE RecordConsumed(d, r, outcome, native))
      /\ e.reservations = (IF outcome = "ambiguous" THEN d.reservations ELSE d.reservations \ {r})
  BY DEF Finish, Document
<1>5. \A t \in d.consumed : t.job = j => t.gen \in Nat /\ ~(t.gen >= r.gen)
  BY <1>1, DocumentFields DEF BarriersIn, Consumed
<1>6. RecordConsumed(d, r, outcome, native) =
        IF ~r.cloud THEN d.consumed ELSE {t \in d.consumed : t.job # j} \cup {s}
  BY <1>5 DEF RecordConsumed
<1> HIDE DEF h, s, e, j
<1>7. FencesIn(e, j) = (IF outcome = "ambiguous" THEN FencesIn(d, j) ELSE FencesIn(d, j) \ {r})
  BY <1>4 DEF FencesIn
<1>8. OutcomesIn(e, j) = OutcomesIn(d, j) \cup {h}
  BY <1>3, <1>4 DEF OutcomesIn
<1>9. BarriersIn(e, j) = (IF outcome = "ambiguous" \/ ~r.cloud THEN BarriersIn(d, j) ELSE {s})
  BY <1>3, <1>4, <1>6 DEF BarriersIn
<1>10. ASSUME NEW i, i # j
       PROVE  View(e, i) = View(d, i)
  <2>1. FencesIn(e, i) = FencesIn(d, i) /\ OutcomesIn(e, i) = OutcomesIn(d, i)
    BY <1>3, <1>4, <1>10 DEF FencesIn, OutcomesIn, j
  <2>2. BarriersIn(e, i) = BarriersIn(d, i)
    BY <1>3, <1>4, <1>6, <1>10 DEF BarriersIn
  <2> QED
    BY <2>1, <2>2 DEF View
<1>11. \A i : i # j => View(e, i) = View(d, i)
  BY <1>10
<1>12. e = f
  BY <1>0 DEF e
<1>13. JournaledAs(d, f, r, outcome, h, s)
  BY <1>3, <1>4, <1>7, <1>8, <1>9, <1>11, <1>12 DEF j, JournaledAs
<1> QED
  BY <1>2, <1>13

\* Document e is d after the ambiguity h of reservation r was resolved: X is
\* empty or the resolved record g, and the barrier is s.
ResolvedAs(d, e, r, h, outcome, g, s, X) ==
  /\ X \subseteq {g}
  /\ g.id = h.id /\ g.gen = h.gen /\ g.cloud = h.cloud /\ g.seq = h.seq
  /\ g.outcome = outcome /\ s.id = r.id /\ s.gen = r.gen /\ s.outcome = outcome
  /\ e.seq = d.seq
  /\ FencesIn(e, r.job) = FencesIn(d, r.job) \ {r}
  /\ OutcomesIn(e, r.job) = (OutcomesIn(d, r.job) \ {h}) \cup X
  /\ BarriersIn(e, r.job) = (IF r.cloud THEN {s} ELSE BarriersIn(d, r.job))
  /\ \A i : i # r.job => View(e, i) = View(d, i)

\* resolve_ambiguous_handoff_inner.
LEMMA ViewResolve ==
  ASSUME NEW d \in Document, NEW r \in d.reservations, NEW h \in d.handoffs, h.job = r.job,
         NEW resolution, \A s \in BarriersIn(d, r.job) : s.gen < r.gen,
         NEW f, f = Resolve(d, r, h, resolution)
  PROVE  \E g \in Handoff, s \in Consumed, X \in SUBSET Handoff :
           ResolvedAs(d, f, r, h, ResolvedOutcome(resolution), g, s, X)
<1> DEFINE e == Resolve(d, r, h, resolution)
           j == r.job
           outcome == ResolvedOutcome(resolution)
           g == [h EXCEPT !.outcome = outcome]
           s == [job |-> r.job, id |-> r.id, gen |-> r.gen, outcome |-> outcome,
                 native |-> h.native]
           X == IF h.seq <= d.acked[OwnerOf[r.job]] THEN {} ELSE {g}
<1>1. h \in Handoff /\ r \in Reservation /\ r.gen \in Nat /\ outcome \in Outcome
  BY DocumentFields DEF Reservation, ResolvedOutcome, Outcome
<1>2. g \in Handoff /\ s \in Consumed
  BY <1>1 DEF Handoff, Consumed, Reservation
<1>3. /\ g.id = h.id /\ g.gen = h.gen /\ g.cloud = h.cloud /\ g.seq = h.seq
      /\ g.outcome = outcome /\ g.job = j
      /\ s.id = r.id /\ s.gen = r.gen /\ s.outcome = outcome /\ s.job = j
  BY <1>1 DEF Handoff
<1>4. X \in SUBSET {g}
  OBVIOUS
<1>5. /\ e.seq = d.seq /\ e.handoffs = (d.handoffs \ {h}) \cup X
      /\ e.consumed = RecordConsumed(d, r, outcome, h.native)
      /\ e.reservations = d.reservations \ {r}
  BY <1>3 DEF Resolve, Document
<1>6. \A t \in d.consumed : t.job = j => t.gen \in Nat /\ ~(t.gen >= r.gen)
  BY <1>1, DocumentFields DEF BarriersIn, Consumed
<1>7. RecordConsumed(d, r, outcome, h.native) =
        IF ~r.cloud THEN d.consumed ELSE {t \in d.consumed : t.job # j} \cup {s}
  BY <1>6 DEF RecordConsumed
<1> HIDE DEF g, s, X, e, j, outcome
<1>8. FencesIn(e, j) = FencesIn(d, j) \ {r}
  BY <1>5 DEF FencesIn
<1>9. OutcomesIn(e, j) = (OutcomesIn(d, j) \ {h}) \cup X
  BY <1>3, <1>4, <1>5 DEF OutcomesIn
<1>10. BarriersIn(e, j) = (IF r.cloud THEN {s} ELSE BarriersIn(d, j))
  BY <1>3, <1>5, <1>7 DEF BarriersIn
<1>11. ASSUME NEW i, i # j
       PROVE  View(e, i) = View(d, i)
  <2>1. FencesIn(e, i) = FencesIn(d, i) /\ OutcomesIn(e, i) = OutcomesIn(d, i)
    BY <1>3, <1>4, <1>5, <1>11 DEF FencesIn, OutcomesIn, j
  <2>2. BarriersIn(e, i) = BarriersIn(d, i)
    BY <1>3, <1>5, <1>7, <1>11 DEF BarriersIn
  <2> QED
    BY <2>1, <2>2 DEF View
<1>12. \A i : i # j => View(e, i) = View(d, i)
  BY <1>11
<1>13. e = f
  BY DEF e
<1>14. ResolvedAs(d, f, r, h, outcome, g, s, X)
  BY <1>3, <1>4, <1>5, <1>8, <1>9, <1>10, <1>12, <1>13 DEF j, ResolvedAs
<1>15. X \in SUBSET Handoff
  BY <1>2, <1>4
<1> QED
  BY <1>2, <1>14, <1>15 DEF outcome

\* acknowledge_handoffs and compact_local_terminal_handoffs drop outcomes.
LEMMA ViewDrop ==
  ASSUME NEW d \in Document
  PROVE  /\ \A c \in Connector, n \in Nat :
              LET e == Acknowledge(d, c, n) IN
              /\ e.seq = d.seq /\ e.reservations = d.reservations /\ e.consumed = d.consumed
              /\ e.handoffs \subseteq d.handoffs
              /\ \A h \in d.handoffs :
                   OwnerOf[h.job] # c \/ h.outcome = "ambiguous" => h \in e.handoffs
         /\ \A S :
              LET e == Compact(d, S) IN
              /\ e.seq = d.seq /\ e.reservations = d.reservations /\ e.consumed = d.consumed
              /\ e.handoffs = d.handoffs \ S
<1>1. ASSUME NEW c \in Connector, NEW n \in Nat
      PROVE  LET e == Acknowledge(d, c, n) IN
             /\ e.seq = d.seq /\ e.reservations = d.reservations /\ e.consumed = d.consumed
             /\ e.handoffs \subseteq d.handoffs
             /\ \A h \in d.handoffs :
                  OwnerOf[h.job] # c \/ h.outcome = "ambiguous" => h \in e.handoffs
  BY DEF Acknowledge, Document
<1>2. ASSUME NEW S
      PROVE  LET e == Compact(d, S) IN
             /\ e.seq = d.seq /\ e.reservations = d.reservations /\ e.consumed = d.consumed
             /\ e.handoffs = d.handoffs \ S
  BY DEF Compact, Document
<1> QED
  BY <1>1, <1>2

\* The newest of a job's outcomes exists.
LEMMA NewestIs ==
  ASSUME NEW S \in SUBSET Handoff, S # {}, NEW q \in Nat, \A h \in S : h.seq <= q
  PROVE  Newest(S) \in S /\ \A g \in S : g.seq <= Newest(S).seq
<1> DEFINE R == OpToRel(<, Nat)
           T == {q - h.seq : h \in S}
<1>1. \A h \in S : h.seq \in Nat /\ q - h.seq \in Nat
  BY DEF Handoff
<1>2. T \subseteq Nat /\ T # {}
  BY <1>1
<1>3. \A x, y \in Nat : y < x => <<y, x>> \in R
  BY DEF OpToRel
<1>4. IsWellFoundedOn(R, Nat)
  BY NatLessThanWellFounded, Zenon
<1> HIDE DEF R, T
<1>5. PICK x \in T : \A y \in T : <<y, x>> \notin R
  BY <1>2, <1>4, WFMin
<1>6. \A y \in T : x <= y
  <2>1. SUFFICES ASSUME NEW y \in T, ~(x <= y) PROVE FALSE
    OBVIOUS
  <2>2. x \in Nat /\ y \in Nat
    BY <1>2
  <2>3. y < x
    BY <2>1, <2>2
  <2>4. <<y, x>> \in R
    BY <1>3, <2>2, <2>3
  <2> QED
    BY <1>5, <2>4
<1>7. \E h \in S : \A g \in S : g.seq <= h.seq
  <2>1. PICK h \in S : x = q - h.seq
    BY DEF T
  <2>2. \A g \in S : q - g.seq \in T
    BY DEF T
  <2>3. \A g \in S : q - h.seq <= q - g.seq
    BY <1>6, <2>1, <2>2
  <2>4. \A g \in S : g.seq <= h.seq
    BY <1>1, <2>3
  <2> QED
    BY <2>4
<1> QED
  BY <1>7 DEF Newest
=============================================================================
