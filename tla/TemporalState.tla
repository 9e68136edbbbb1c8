------------------------------ MODULE TemporalState ------------------------------
(***************************************************************************)
(* game_state/temporal.py and semantic.py: the history of observations,    *)
(* and its reduction to what is true at a moment.  Times are counted in    *)
(* units of the stale threshold; identifiers of observations are numbers,  *)
(* ordered as their texts are.                                             *)
(***************************************************************************)
EXTENDS Knowledge

CONSTANTS
  Known,    \* the nodes both graphs are built of
  Kind,     \* evidence type -> "location" | "quest" | "inventory" | "nearby"
  Expiry    \* expiry_after_seconds, in stale thresholds

ASSUME TemporalConstants == Expiry \in Nat /\ Expiry > 1

\* The nodes are a list, and their confidences numbers.
ASSUME KnownEntities ==
  /\ Len(Known) \in Nat /\ DOMAIN Known = 1..Len(Known)
  /\ \A i \in DOMAIN Known : Known[i].confidence \in Int

Stale == 1
NoGauge == -1
NoStatus == <<NoGauge, NoGauge>>   \* neither HP nor MP is known

\* PerceptionEvidence.
Evidence(type, value, confidence) == [type |-> type, value |-> value, confidence |-> confidence]

\* ObservationHistoryEntry: each piece of evidence next to its resolution.  An
\* unresolved piece counts with the confidence it was seen with.
Piece(e) ==
  LET r == Resolve(Known, e)
  IN  [type |-> e.type, kind |-> Kind[e.type], resolved |-> r.resolved,
       conflict |-> r.conflict, id |-> r.id, entity |-> r.type,
       confidence |-> IF r.resolved THEN r.confidence ELSE e.confidence]

Entry(id, at, evidence, status) ==
  [id |-> id, at |-> at, status |-> status,
   pieces |-> [i \in DOMAIN evidence |-> Piece(evidence[i])]]

\* Everything that was ever seen, as pairs of an entry and a place in it.
Seen(history) == UNION {{i} \X DOMAIN history[i].pieces : i \in DOMAIN history}
At(history, p) == history[p[1]].pieces[p[2]]

\* ordered_entries: by time, then identifier, then arrival; within an entry by place.
Before(history, p, q) ==
  LET e == history[p[1]]
      f == history[q[1]]
  IN  \/ e.at < f.at
      \/ e.at = f.at /\ e.id < f.id
      \/ e.at = f.at /\ e.id = f.id /\ p[1] < q[1]
      \/ e.at = f.at /\ e.id = f.id /\ p[1] = q[1] /\ p[2] < q[2]

NotAfter(history, p, q) == p = q \/ Before(history, p, q)

Newest(history, of) == CHOOSE p \in of : \A q \in of : NotAfter(history, q, p)

\* (A slip: the latest is what came last.)
LastArrived(history) == Len(history)

\* latest
LatestIndex(history) == Newest(history, {<<i, 0>> : i \in DOMAIN history})[1]
Latest(history) == history[LatestIndex(history)]

Age(now, at) == IF now > at THEN now - at ELSE 0

-----------------------------------------------------------------------------
\* What of the history selects an entity, and the newest of that.
Selecting(history, id) ==
  {p \in Seen(history) : At(history, p).resolved /\ At(history, p).id = id}

SelectedIds(history) ==
  {At(history, p).id : p \in {q \in Seen(history) : At(history, q).resolved}}

\* Of equal place in the order, the place of first arrival counts.
NewestOf(history, id) ==
  LET Key(p) == <<history[p[1]].at, history[p[1]].id, p[2]>>
      last   == Newest(history, Selecting(history, id))
      same   == {p \in Selecting(history, id) : Key(p) = Key(last)}
  IN  CHOOSE p \in same : \A q \in same : p[1] <= q[1]

Lifecycle(history, now, newest) ==
  LET entry == history[newest[1]]
      age   == Age(now, entry.at)
  IN  CASE age >= Expiry -> "EXPIRED"
        [] age < Expiry /\ entry.id = Latest(history).id /\ age <= Stale -> "VISIBLE"
        [] OTHER -> "LOST"

\* The confidence of an entity: of all its evidence, the older weighing less.
Weight(now, at) ==
  LET left == 10 * (Expiry - Age(now, at)) IN IF left > Expiry THEN left ELSE Expiry

Aggregate(history, now, id) ==
  LET of == Selecting(history, id)
      Of(p) == Weight(now, history[p[1]].at)
  IN  SumFunction([p \in of |-> Of(p) * At(history, p).confidence])
      \div SumFunction([p \in of |-> Of(p)])

Reference(history, now, newest) ==
  LET piece == At(history, newest)
  IN  [id |-> piece.id, type |-> piece.entity, kind |-> piece.kind,
       life |-> Lifecycle(history, now, newest),
       confidence |-> Aggregate(history, now, piece.id),
       seen |-> history[newest[1]].at]

References(history, now) ==
  {Reference(history, now, newest) : newest \in {NewestOf(history, id) : id \in SelectedIds(history)}}

\* _has_latest_category_conflict
LatestSelects(history, kind) ==
  {At(history, p).id :
     p \in {q \in Seen(history) : /\ q[1] = LatestIndex(history)
                                  /\ At(history, q).kind = kind
                                  /\ At(history, q).resolved}}

LocationConflict(history) == Cardinality(LatestSelects(history, "location")) > 1

\* _latest_reference: of those last seen together, the one first heard of.
LatestLocation(history, refs) ==
  LET locations == {r \in refs : r.kind = "location"}
      last  == {r \in locations : \A q \in locations : r.seen >= q.seen}
      First(r) == LET of == Selecting(history, r.id)
                  IN  CHOOSE p \in of : \A q \in of : NotAfter(history, p, q)
  IN  {r \in last : \A q \in last : NotAfter(history, First(r), First(q))}

\* _latest_player_status: the newest one there is, unless it has expired.
PlayerStatus(history, now) ==
  LET having == {<<i, 0>> : i \in {j \in DOMAIN history : history[j].status # NoStatus}}
      newest == history[Newest(history, having)[1]]
  IN  IF having = {} \/ Age(now, newest.at) >= Expiry THEN NoStatus ELSE newest.status

\* The conflicts: evidence that fits several entities, however long ago, and the
\* locations of the latest observation when they compete.
Conflicts(history) ==
  {p \in Seen(history) :
     \/ At(history, p).conflict
     \/ /\ p[1] = LatestIndex(history) /\ At(history, p).resolved
        /\ At(history, p).kind = "location"
        /\ \E q \in Seen(history) :
             /\ q[1] = p[1] /\ At(history, q).type = At(history, p).type
             /\ At(history, q).resolved
             /\ At(history, q).id # At(history, p).id}

\* _unknown_references, of the latest observation alone; and what is left of them
\* when only one of a type is kept.
Unknown(history) ==
  {p \in Seen(history) : p[1] = LatestIndex(history) /\ ~At(history, p).resolved}

UnknownTypes(history) ==
  {[type |-> At(history, p).type, confidence |-> At(history, p).confidence] :
     p \in {q \in Unknown(history) :
              \A r \in Unknown(history) :
                At(history, r).type = At(history, q).type => q[2] <= r[2]}}

ContestedLocation == [type |-> "location", confidence |-> 0]

\* StateReducer.reduce
Reduce(history, now) ==
  LET refs == References(history, now)
      conflict == LocationConflict(history)
      location == IF conflict THEN {} ELSE LatestLocation(history, refs)
      seen == Seen(history)
  IN  [observation |-> Latest(history).id, at |-> Latest(history).at,
       location |-> location,
       refs |-> location \cup {r \in refs : r.kind # "location"},
       status |-> PlayerStatus(history, now),
       unresolved |-> {p \in seen : ~At(history, p).resolved},
       stale |-> {p \in seen : Age(now, history[p[1]].at) > Stale},
       conflicts |-> Conflicts(history),
       unknown |-> Cardinality(Unknown(history)) + (IF conflict THEN 1 ELSE 0),
       unknowns |-> UnknownTypes(history) \cup (IF conflict THEN {ContestedLocation} ELSE {}),
       confidence |-> IF seen = {} THEN 0 ELSE SumFunction([p \in seen |-> At(history, p).confidence])
                                          \div Cardinality(seen)]

\* _transition: the lifecycle of every entity before and after.
LifecycleOf(state, id) ==
  IF \E r \in state.refs : r.id = id THEN (CHOOSE r \in state.refs : r.id = id).life ELSE "ABSENT"
=============================================================================
