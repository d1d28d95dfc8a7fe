--------------------------- MODULE MemoryStoreProofs ---------------------------
(***************************************************************************)
(* Proofs about the memory of a metric: what a run remembers comes newest  *)
(* first, although versions are read in one transaction and written in     *)
(* another, and what it takes for a prior suits it and is on its page, for *)
(* any number of runs and seeds and however long the clock runs.           *)
(***************************************************************************)
EXTENDS MemoryStore, NaturalSets, SequenceTheorems, TLAPS

USE DEF local

-------------------------------------------------------------------------------
(* Reading.                                                                *)

(* One more than the highest version is above every version.               *)
LEMMA NextVersionIsNext ==
  ASSUME NEW S, IsFiniteSet(S), \A x \in S : x.version \in Nat
  PROVE  NextVersion(S) \in Nat /\ \A x \in S : x.version < NextVersion(S)
<1> DEFINE versions == {x.version : x \in S}
           f == [x \in S |-> x.version]
<1>1. IsFiniteSet(versions)
  <2>1. f \in Surjection(S, versions)
    BY DEF Surjection
  <2> QED
    BY <2>1, FS_Surjection
<1>2. IsFiniteSet(versions \cup {0}) /\ versions \cup {0} \in SUBSET Nat
  BY <1>1, FS_AddElement
<1>3. /\ Max(versions \cup {0}) \in Nat
      /\ \A v \in versions : v <= Max(versions \cup {0})
  BY <1>2, MaxOfFinite
<1>4. NextVersion(S) = 1 + Max(versions \cup {0})
  BY DEF NextVersion
<1>5. \A x \in S : x.version \in versions
  OBVIOUS
<1> HIDE DEF versions
<1> QED
  BY <1>3, <1>4, <1>5

(* What a read returns: rows of the layer, usable, and in order.           *)
LEMMA ReadsInOrder ==
  ASSUME IsFiniteSet(records), NEW layer, NEW t, NEW s \in Reads(layer, t)
  PROVE  /\ s \in Seq(records)
         /\ \A i \in DOMAIN s : s[i].layer = layer /\ Usable(s[i], t)
         /\ \A i, j \in DOMAIN s : i < j => Precedes(s[i], s[j])
<1> DEFINE S == {x \in records : x.layer = layer /\ Usable(x, t)}
<1>1. s \in SetToSeqs(S) /\ \A i, j \in DOMAIN s : i < j => Precedes(s[i], s[j])
  BY DEF Reads, Orderings
<1>2. Cardinality(S) \in Nat
  BY FS_Subset, FS_CardinalityType
<1>3. s \in [1..Cardinality(S) -> S]
  BY <1>1 DEF SetToSeqs
<1> QED
  BY <1>1, <1>2, <1>3

(* The rows of two reads, one after the other.                             *)
LEMMA JoinedRows ==
  ASSUME NEW S, NEW s \in Seq(S), NEW t \in Seq(S)
  PROVE  /\ s \o t \in Seq(S)
         /\ \A i \in DOMAIN (s \o t) :
              \/ i \in DOMAIN s /\ (s \o t)[i] = s[i]
              \/ i > Len(s) /\ i - Len(s) \in DOMAIN t /\ (s \o t)[i] = t[i - Len(s)]
BY ConcatProperties


-------------------------------------------------------------------------------
(* The invariant.  Ids are those of the records that were ever inserted:   *)
(* no row is deleted.                                                      *)

Ids == {x.id : x \in records}

(* Nothing of a layer was there to be seen, or it was of an older version. *)
Newer(y) == \A x \in records : x.layer = y.layer /\ x.id \in y.saw => x.version < y.version

Written == {"episodic", "reflection"}

RecordSound(x) ==
  /\ DOMAIN x = Columns
  /\ x.version \in Nat /\ x.born \in Nat /\ x.ttl \in Nat
  /\ x.layer = "reflection" => ~x.advice
  /\ x.saw \subseteq Ids /\ (x.saw # {} => x.layer \in Written)
  /\ Newer(x)

RecordsSound ==
  /\ IsFiniteSet(records)
  /\ \A x \in records : RecordSound(x)
  /\ \A x, y \in records : x.id = y.id => x = y
  /\ \A r \in Runs : pc[r] # "over" => r \notin Ids

Shape ==
  /\ now \in Nat
  /\ pc = [r \in Runs |-> pc[r]]
  /\ started \in [Runs -> Nat]
  /\ hits \in [Runs -> Seq(records)]
  /\ priors = [r \in Runs |-> priors[r]]
  /\ draft \in [Runs -> [layer : Written \cup {"none"}, version : Nat, born : Nat,
                         saw : SUBSET Ids]]

DraftSound(r) ==
  /\ pc[r] \in {"version", "stamp", "insert"} => draft[r].layer \in Written
  /\ pc[r] \in {"stamp", "insert"} => Newer(draft[r])

(* The layers that are read before p.                                      *)
ReadBefore(p) == CASE p = "semantic"   -> {}
                   [] p = "episodic"   -> {"semantic"}
                   [] p = "reflection" -> {"semantic", "episodic"}
                   [] p = "case"       -> {"semantic", "episodic", "reflection"}
                   [] OTHER            -> Layers

HitSound(r, x) ==
  /\ x.layer \in ReadBefore(pc[r])
  /\ x.ttl # NoTtl => x.born + x.ttl >= started[r]

HitsSound(r) ==
  /\ pc[r] \notin Stages => hits[r] = <<>>
  /\ \A i \in DOMAIN hits[r] : HitSound(r, hits[r][i])
  /\ \A i, j \in DOMAIN hits[r] :
       i < j /\ hits[r][i].layer = hits[r][j].layer => Precedes(hits[r][i], hits[r][j])

RunSound(r) ==
  /\ started[r] <= now
  /\ pc[r] = "idle" => priors[r] = {}

Sound ==
  /\ Shape /\ RecordsSound
  /\ \A r \in Runs : DraftSound(r) /\ HitsSound(r) /\ RunSound(r)

-------------------------------------------------------------------------------
(* Steps of one run that leave the table alone.                            *)

LEMMA SoundInit == Init => Sound
<1> SUFFICES ASSUME Init PROVE Sound
  OBVIOUS
<1>1. Ids = {x.id : x \in Seeds}
  BY DEF Init, Ids
<1>2. \A x \in records : x.saw = {} /\ RecordSound(x)
  BY SeedsAssumption DEF Init, RecordSound, Newer
<1>3. RecordsSound
  BY <1>1, <1>2, SeedsAssumption DEF Init, RecordsSound
<1>4. Shape
  BY DEF Init, Shape, NoDraft, Written
<1>5. \A r \in Runs : DraftSound(r) /\ HitsSound(r) /\ RunSound(r)
  BY DEF Init, DraftSound, HitsSound, RunSound, Stages, Layers, After
<1> QED
  BY <1>3, <1>4, <1>5 DEF Sound

(* What is known of a run does not depend on what others do.               *)
LEMMA OneRunMoves ==
  ASSUME Sound, NEW r \in Runs, pc[r] # "over", UNCHANGED <<now, records>>,
         Shape', DraftSound(r)', HitsSound(r)', RunSound(r)',
         \A q \in Runs \ {r} : /\ pc'[q] = pc[q] /\ started'[q] = started[q]
                               /\ hits'[q] = hits[q] /\ priors'[q] = priors[q]
                               /\ draft'[q] = draft[q]
  PROVE  Sound'
<1>1. Ids' = Ids
  BY DEF Ids
<1>2. \A x \in records : RecordSound(x)'
  BY <1>1 DEF Sound, RecordsSound, RecordSound, Newer
<1>3. RecordsSound'
  BY <1>1, <1>2 DEF Sound, RecordsSound
<1>4. ASSUME NEW q \in Runs \ {r}
      PROVE  DraftSound(q)' /\ HitsSound(q)' /\ RunSound(q)'
  BY DEF Sound, DraftSound, Newer, HitsSound, HitSound, RunSound
<1> QED
  BY <1>3, <1>4 DEF Sound

(* The stages in their order.                                              *)
LEMMA StagesFacts ==
  /\ Layers = {"semantic", "episodic", "reflection", "case"}
  /\ Stages = Layers \cup {"judge"}
  /\ \A l \in Layers :
       /\ After[l] \in Stages \ {"over", "idle", "version", "stamp", "insert"}
       /\ l \notin ReadBefore(l)
       /\ ReadBefore(After[l]) = ReadBefore(l) \cup {l}
<1>1. Layers = {"semantic", "episodic", "reflection", "case"}
  BY DEF Layers, After
<1> QED
  BY <1>1 DEF Stages, After, ReadBefore

LEMMA BeginIsSound == \A r \in Runs : Sound /\ Begin(r) => Sound'
<1> SUFFICES ASSUME NEW r \in Runs, Sound, Begin(r) PROVE Sound'
  OBVIOUS
<1>1. PICK p \in {"work", "semantic"} : pc' = [pc EXCEPT ![r] = p]
  BY DEF Begin, GoTo
<1>2. /\ pc[r] = "idle" /\ hits[r] = <<>> /\ priors[r] = {}
      /\ started' = [started EXCEPT ![r] = now]
      /\ UNCHANGED <<now, records, hits, priors, draft>>
  BY StagesFacts DEF Begin, Sound, HitsSound, RunSound
<1>3. Shape'
  BY <1>1, <1>2 DEF Sound, Shape, Ids
<1>4. DraftSound(r)' /\ HitsSound(r)' /\ RunSound(r)'
  BY <1>1, <1>2, StagesFacts DEF Sound, Shape, DraftSound, HitsSound, RunSound
<1> QED
  BY <1>1, <1>2, <1>3, <1>4, OneRunMoves DEF Sound, Shape

LEMMA ReadLayerIsSound == \A r \in Runs : Sound /\ ReadLayer(r) => Sound'
<1> SUFFICES ASSUME NEW r \in Runs, Sound, ReadLayer(r) PROVE Sound'
  OBVIOUS
<1>1. PICK s \in Reads(pc[r], now) : hits' = [hits EXCEPT ![r] = hits[r] \o s]
  BY DEF ReadLayer
<1>2. /\ pc[r] \in Layers /\ pc' = [pc EXCEPT ![r] = After[pc[r]]]
      /\ UNCHANGED <<now, records, started, priors, draft>>
  BY DEF ReadLayer, GoTo
<1>3. /\ s \in Seq(records)
      /\ \A i \in DOMAIN s : s[i].layer = pc[r] /\ Usable(s[i], now)
      /\ \A i, j \in DOMAIN s : i < j => Precedes(s[i], s[j])
  BY ReadsInOrder DEF Sound, RecordsSound
<1>4. PICK h, g : /\ h = hits[r] /\ h \in Seq(records) /\ g = h \o s /\ hits'[r] = g
                  /\ pc'[r] = After[pc[r]] /\ started'[r] = started[r]
  BY <1>1, <1>2 DEF Sound, Shape
<1>5. /\ g \in Seq(records)
      /\ \A i \in DOMAIN g :
           \/ i \in DOMAIN h /\ g[i] = h[i]
           \/ i > Len(h) /\ i - Len(h) \in DOMAIN s /\ g[i] = s[i - Len(h)]
  BY <1>3, <1>4, JoinedRows
<1>6. /\ \A i \in DOMAIN h : HitSound(r, h[i])
      /\ \A i, j \in DOMAIN h : i < j /\ h[i].layer = h[j].layer => Precedes(h[i], h[j])
  BY <1>4 DEF Sound, HitsSound
<1>7. \A i \in DOMAIN s : HitSound(r, s[i])'
  <2> SUFFICES ASSUME NEW i \in DOMAIN s PROVE HitSound(r, s[i])'
    OBVIOUS
  <2>1. s[i].layer \in ReadBefore(pc'[r])
    BY <1>2, <1>3, <1>4, StagesFacts
  <2>2. s[i].ttl # NoTtl => s[i].born + s[i].ttl >= started[r]
    <3>1. s[i] \in records /\ s[i].born \in Nat /\ s[i].ttl \in Nat
      BY <1>3 DEF Sound, RecordsSound, RecordSound
    <3>2. started[r] \in Nat /\ now \in Nat /\ started[r] <= now
      BY DEF Sound, Shape, RunSound
    <3>3. s[i].ttl # NoTtl => s[i].born + s[i].ttl >= now
      BY <1>3 DEF Usable
    <3> QED
      BY <3>1, <3>2, <3>3
  <2> QED
    BY <1>4, <2>1, <2>2 DEF HitSound
<1>8. \A i \in DOMAIN h : HitSound(r, h[i])'
  BY <1>2, <1>4, <1>6, StagesFacts DEF HitSound
<1>9. \A i \in DOMAIN g : HitSound(r, g[i])'
  BY <1>5, <1>7, <1>8
<1>10. ASSUME NEW i \in DOMAIN g, NEW j \in DOMAIN g, i < j, g[i].layer = g[j].layer
       PROVE  Precedes(g[i], g[j])
  <2>1. i \in Nat /\ j \in Nat /\ Len(h) \in Nat /\ DOMAIN h = 1..Len(h) /\ DOMAIN s \subseteq Nat
    BY <1>3, <1>4, <1>5
  <2>2. CASE i \in DOMAIN h /\ g[i] = h[i] /\ j \in DOMAIN h /\ g[j] = h[j]
    BY <1>6, <1>10, <2>2
  <2>3. CASE /\ i - Len(h) \in DOMAIN s /\ g[i] = s[i - Len(h)]
             /\ j - Len(h) \in DOMAIN s /\ g[j] = s[j - Len(h)]
    <3>1. i - Len(h) < j - Len(h)
      BY <1>10, <2>1
    <3> QED
      BY <1>3, <2>3, <3>1
  <2>4. CASE i \in DOMAIN h /\ g[i] = h[i] /\ j - Len(h) \in DOMAIN s /\ g[j] = s[j - Len(h)]
    <3>1. h[i].layer \in ReadBefore(pc[r])
      BY <1>6, <2>4 DEF HitSound
    <3>2. s[j - Len(h)].layer = pc[r]
      BY <1>3, <2>4
    <3> QED
      BY <1>2, <1>10, <2>4, <3>1, <3>2, StagesFacts
  <2>5. CASE i > Len(h) /\ j \in DOMAIN h
    BY <1>10, <2>1, <2>5
  <2> QED
    BY <1>5, <1>10, <2>2, <2>3, <2>4, <2>5
<1>11. HitsSound(r)'
  <2>1. pc'[r] \in Stages
    BY <1>2, <1>4, StagesFacts
  <2>2. \A i \in DOMAIN hits'[r] : HitSound(r, hits[r][i])'
    BY <1>4, <1>9 DEF HitSound
  <2>3. \A i, j \in DOMAIN hits'[r] :
          i < j /\ hits'[r][i].layer = hits'[r][j].layer => Precedes(hits'[r][i], hits'[r][j])
    BY <1>4, <1>10
  <2> QED
    BY <2>1, <2>2, <2>3 DEF HitsSound, Precedes
<1>12. DraftSound(r)' /\ RunSound(r)'
  BY <1>2, <1>4, StagesFacts DEF Sound, DraftSound, RunSound
<1>13. Shape'
  BY <1>1, <1>2, <1>4, <1>5 DEF Sound, Shape, Ids
<1> QED
  BY <1>1, <1>2, <1>11, <1>12, <1>13, OneRunMoves, StagesFacts DEF Sound, Shape

(* The reading of a run is over: it forgets its hits.                      *)
LEMMA ForgettingIsSound ==
  ASSUME Sound, NEW r \in Runs, NEW p \in {"over", "work"}, pc[r] \in Stages,
         pc' = [pc EXCEPT ![r] = p], hits' = [hits EXCEPT ![r] = <<>>],
         priors' = [q \in Runs |-> priors'[q]], \A q \in Runs \ {r} : priors'[q] = priors[q],
         UNCHANGED <<now, records, started, draft>>
  PROVE  Sound'
<1>1. pc'[r] = p /\ hits'[r] = <<>> /\ pc[r] # "over"
  BY StagesFacts DEF Sound, Shape
<1>2. Shape'
  <2>1. Ids' = Ids
    BY DEF Ids
  <2>2. hits' \in [Runs -> Seq(records)]
    BY DEF Sound, Shape
  <2>3. pc' = [q \in Runs |-> pc'[q]]
    BY DEF Sound, Shape
  <2> QED
    BY <2>1, <2>2, <2>3 DEF Sound, Shape
<1>3. HitsSound(r)' /\ DraftSound(r)' /\ RunSound(r)'
  BY <1>1 DEF Sound, HitsSound, DraftSound, RunSound
<1> QED
  BY <1>1, <1>2, <1>3, OneRunMoves DEF Sound, Shape

LEMMA ConcludeIsSound == \A r \in Runs : Sound /\ Conclude(r) => Sound'
<1> SUFFICES ASSUME NEW r \in Runs, Sound, Conclude(r) PROVE Sound'
  OBVIOUS
<1>1. /\ pc[r] = "work" /\ hits[r] = <<>>
      /\ UNCHANGED <<now, records, started, hits, priors>>
  BY StagesFacts DEF Conclude, Sound, HitsSound
<1>2. PICK p \in {"over", "version"} : pc' = [pc EXCEPT ![r] = p]
  BY DEF Conclude, GoTo
<1>3. pc'[r] = p /\ p \notin Stages /\ p # "idle"
  BY <1>2, StagesFacts DEF Sound, Shape
<1>4. HitsSound(r)' /\ RunSound(r)'
  BY <1>1, <1>3 DEF Sound, HitsSound, RunSound
<1>5. CASE GoTo(r, "over") /\ UNCHANGED draft
  <2>1. Shape' /\ DraftSound(r)'
    BY <1>1, <1>5 DEF Sound, Shape, Ids, GoTo, DraftSound
  <2> QED
    BY <1>1, <1>2, <1>4, <1>5, <2>1, OneRunMoves DEF Sound, Shape
<1>6. CASE GoTo(r, "version") /\ \E layer \in Written : draft' = [draft EXCEPT ![r].layer = layer]
  <2>1. PICK layer \in Written : draft' = [draft EXCEPT ![r].layer = layer]
    BY <1>6
  <2>2. Shape' /\ draft'[r].layer = layer /\ pc'[r] = "version"
    <3>1. Ids' = Ids
      BY <1>1 DEF Ids
    <3>2. /\ draft' \in [Runs -> [layer : Written \cup {"none"}, version : Nat, born : Nat,
                                  saw : SUBSET Ids]]
          /\ draft'[r].layer = layer
      BY <2>1 DEF Sound, Shape
    <3> QED
      BY <1>1, <1>6, <3>1, <3>2 DEF Sound, Shape, GoTo
  <2>3. DraftSound(r)'
    BY <2>2 DEF DraftSound
  <2>4. \A q \in Runs \ {r} : draft'[q] = draft[q]
    BY <2>1 DEF Sound, Shape
  <2> QED
    BY <1>1, <1>2, <1>4, <2>2, <2>3, <2>4, OneRunMoves DEF Sound, Shape
<1> QED
  BY <1>5, <1>6 DEF Conclude, Written

(* The version a run reads is above those it sees.                         *)
LEMMA ReadVersionIsSound == \A r \in Runs : Sound /\ ReadVersion(r) => Sound'
<1> SUFFICES ASSUME NEW r \in Runs, Sound, ReadVersion(r) PROVE Sound'
  OBVIOUS
<1> DEFINE S == {x \in records : x.layer = draft[r].layer}
<1>1. /\ pc[r] = "version" /\ pc' = [pc EXCEPT ![r] = "stamp"]
      /\ draft' = [draft EXCEPT ![r].version = NextVersion(S), ![r].saw = {x.id : x \in S}]
      /\ UNCHANGED <<now, records, started, hits, priors>>
  BY DEF ReadVersion, GoTo
<1>2. NextVersion(S) \in Nat /\ \A x \in S : x.version < NextVersion(S)
  <2>1. IsFiniteSet(S) /\ \A x \in S : x.version \in Nat
    BY FS_Subset DEF Sound, RecordsSound, RecordSound
  <2> HIDE DEF S
  <2> QED
    BY <2>1, NextVersionIsNext
<1>3. Shape' /\ pc'[r] = "stamp"
  <2>1. Ids' = Ids /\ {x.id : x \in S} \in SUBSET Ids
    BY <1>1 DEF Ids
  <2>2. draft' \in [Runs -> [layer : Written \cup {"none"}, version : Nat, born : Nat,
                             saw : SUBSET Ids]]
    <3> HIDE DEF S
    <3> QED
      BY <1>1, <1>2, <2>1 DEF Sound, Shape
  <2> QED
    BY <1>1, <2>1, <2>2 DEF Sound, Shape
<1>4. /\ draft'[r].layer = draft[r].layer /\ draft'[r].version = NextVersion(S)
      /\ draft'[r].saw = {x.id : x \in S}
  BY <1>1 DEF Sound, Shape
<1>5. Newer(draft[r])'
  <2> SUFFICES ASSUME NEW x \in records, x.layer = draft[r].layer, x.id \in draft'[r].saw
               PROVE  x.version < draft'[r].version
    BY <1>1, <1>4 DEF Newer
  <2>1. x \in S
    OBVIOUS
  <2> QED
    BY <1>2, <1>4, <2>1
<1>6. HitsSound(r)' /\ RunSound(r)' /\ DraftSound(r)'
  <2>1. draft'[r].layer \in Written
    BY <1>1, <1>4 DEF Sound, DraftSound
  <2>2. hits[r] = <<>>
    BY <1>1, StagesFacts DEF Sound, HitsSound
  <2> QED
    BY <1>1, <1>3, <1>5, <2>1, <2>2, StagesFacts DEF HitsSound, RunSound, DraftSound, Sound
<1>7. \A q \in Runs \ {r} : draft'[q] = draft[q]
  BY <1>1 DEF Sound, Shape
<1> QED
  BY <1>1, <1>3, <1>6, <1>7, OneRunMoves DEF Sound, Shape

LEMMA StampIsSound == \A r \in Runs : Sound /\ Stamp(r) => Sound'
<1> SUFFICES ASSUME NEW r \in Runs, Sound, Stamp(r) PROVE Sound'
  OBVIOUS
<1>1. /\ pc[r] = "stamp" /\ pc' = [pc EXCEPT ![r] = "insert"]
      /\ draft' = [draft EXCEPT ![r].born = now]
      /\ UNCHANGED <<now, records, started, hits, priors>>
  BY DEF Stamp, GoTo
<1>2. Shape' /\ pc'[r] = "insert" /\ \A q \in Runs \ {r} : draft'[q] = draft[q]
  BY <1>1 DEF Sound, Shape, Ids
<1>3. /\ draft'[r].layer = draft[r].layer /\ draft'[r].version = draft[r].version
      /\ draft'[r].saw = draft[r].saw
  BY <1>1 DEF Sound, Shape
<1>4. HitsSound(r)' /\ RunSound(r)'
  BY <1>1, <1>2, StagesFacts DEF HitsSound, RunSound, Sound
<1>5. DraftSound(r)'
  BY <1>1, <1>2, <1>3 DEF Sound, DraftSound, Newer
<1> QED
  BY <1>1, <1>2, <1>4, <1>5, OneRunMoves DEF Sound, Shape

-------------------------------------------------------------------------------
(* Steps that change the table.                                            *)

LEMMA InsertIsSound == \A r \in Runs : Sound /\ Insert(r) => Sound'
<1> SUFFICES ASSUME NEW r \in Runs, Sound, Insert(r) PROVE Sound'
  OBVIOUS
<1>1. /\ pc[r] = "insert" /\ pc' = [pc EXCEPT ![r] = "over"] /\ pc'[r] = "over"
      /\ UNCHANGED <<now, started, hits, priors, draft>>
  BY DEF Insert, GoTo, Sound, Shape
<1>2. HitsSound(r)' /\ RunSound(r)' /\ DraftSound(r)'
  <2>1. hits'[r] = <<>>
    BY <1>1, StagesFacts DEF Sound, HitsSound
  <2> QED
    BY <1>1, <2>1 DEF HitsSound, RunSound, DraftSound, Sound
<1>3. CASE records' = records
  <2>1. Shape'
    BY <1>1, <1>3 DEF Sound, Shape, Ids
  <2> QED
    BY <1>1, <1>2, <1>3, <2>1, OneRunMoves DEF Sound, Shape
<1>4. CASE records' = records \cup {RecordOf(r)}
  <2> DEFINE rec == RecordOf(r)
  <2>1. /\ DOMAIN rec = Columns /\ rec.id = r /\ rec.layer = draft[r].layer
        /\ rec.version = draft[r].version /\ rec.born = draft[r].born /\ rec.ttl = 0
        /\ rec.saw = draft[r].saw /\ (rec.layer = "reflection" => ~rec.advice)
    BY DEF RecordOf, Columns, NoTtl
  <2>2. /\ draft[r].layer \in Written /\ Newer(draft[r])
        /\ draft[r].version \in Nat /\ draft[r].born \in Nat
        /\ \A q \in Runs : draft[q].saw \subseteq Ids
    BY <1>1 DEF Sound, DraftSound, Shape
  <2>3. r \notin Ids /\ Ids' = Ids \cup {r}
    <3>1. r \notin Ids
      BY <1>1 DEF Sound, RecordsSound
    <3>2. {x.id : x \in records \cup {rec}} = {x.id : x \in records} \cup {rec.id}
      OBVIOUS
    <3> HIDE DEF rec
    <3> QED
      BY <1>4, <2>1, <3>1, <3>2 DEF Ids, rec
  <2>4. records' = records \cup {rec}
    BY <1>4
  <2> HIDE DEF rec
  <2>5. ASSUME NEW x \in records PROVE RecordSound(x)'
    <3>1. RecordSound(x)
      BY DEF Sound, RecordsSound
    <3>2. Newer(x)'
      BY <2>1, <2>3, <2>4, <3>1 DEF RecordSound, Newer
    <3> QED
      BY <2>3, <3>1, <3>2 DEF RecordSound
  <2>6. RecordSound(rec)'
    <3>1. \A x \in records \cup {rec} :
            x.layer = rec.layer /\ x.id \in rec.saw => x.version < rec.version
      BY <2>1, <2>2, <2>3 DEF Newer
    <3>2. rec' = rec
      BY <1>1 DEF rec, RecordOf
    <3>3. rec.saw \subseteq Ids'
      BY <2>1, <2>2, <2>3
    <3> QED
      BY <2>1, <2>2, <2>4, <3>1, <3>2, <3>3 DEF RecordSound, Newer
  <2>7. RecordsSound'
    <3>1. IsFiniteSet(records')
      BY <2>4, FS_AddElement DEF Sound, RecordsSound
    <3>2. \A x \in records' : RecordSound(x)'
      <4>1. rec' = rec
        BY <1>1 DEF rec, RecordOf
      <4> QED
        BY <2>4, <2>5, <2>6, <4>1 DEF RecordSound, Newer
    <3>3. \A x, y \in records' : x.id = y.id => x = y
      <4>1. \A x \in records : x.id \in Ids
        BY DEF Ids
      <4> QED
        BY <2>1, <2>3, <2>4, <4>1 DEF Sound, RecordsSound
    <3>4. \A q \in Runs : pc'[q] # "over" => q \notin Ids'
      BY <1>1, <2>3 DEF Sound, RecordsSound, Shape
    <3> QED
      BY <3>1, <3>2, <3>3, <3>4 DEF RecordsSound
  <2>8. Shape'
    <3>1. \A q \in Runs : hits[q] \in Seq(records')
      BY <2>4 DEF Sound, Shape
    <3>2. draft \in [Runs -> [layer : Written \cup {"none"}, version : Nat, born : Nat,
                              saw : SUBSET Ids']]
      BY <2>3 DEF Sound, Shape
    <3> QED
      BY <1>1, <3>1, <3>2 DEF Sound, Shape
  <2>9. ASSUME NEW q \in Runs \ {r}
        PROVE  DraftSound(q)' /\ HitsSound(q)' /\ RunSound(q)'
    <3>1. pc'[q] = pc[q]
      BY <1>1 DEF Sound, Shape
    <3>2. Newer(draft[q]) => Newer(draft[q])'
      BY <1>1, <2>1, <2>2, <2>3, <2>4 DEF Newer
    <3> QED
      BY <1>1, <3>1, <3>2 DEF Sound, DraftSound, HitsSound, HitSound, RunSound
  <2> QED
    BY <1>2, <2>7, <2>8, <2>9 DEF Sound
<1> QED
  BY <1>3, <1>4 DEF Insert

(* A row of an unknown layer becomes a case; nothing else of it changes,   *)
(* and no row of a known layer does.                                       *)
Frozen(x) == IF x.layer \in Layers THEN x ELSE [x EXCEPT !.layer = "case"]

LEMMA FrozenFacts ==
  ASSUME NEW x, DOMAIN x = Columns
  PROVE  /\ DOMAIN Frozen(x) = Columns /\ Frozen(x).layer \in Layers
         /\ Frozen(x).id = x.id /\ Frozen(x).version = x.version /\ Frozen(x).born = x.born
         /\ Frozen(x).ttl = x.ttl /\ Frozen(x).saw = x.saw /\ Frozen(x).advice = x.advice
         /\ x.layer \in Layers => Frozen(x) = x
         /\ x.layer \notin Layers => Frozen(x).layer = "case"
BY StagesFacts DEF Frozen, Columns

LEMMA FreezeIsSound == Sound /\ FreezeLegacyLayers => Sound'
<1> SUFFICES ASSUME Sound, FreezeLegacyLayers PROVE Sound'
  OBVIOUS
<1>1. /\ records' = {Frozen(x) : x \in records}
      /\ UNCHANGED <<now, pc, started, hits, priors, draft>>
  BY DEF FreezeLegacyLayers, Frozen
<1>2. \A x \in records :
        /\ DOMAIN Frozen(x) = Columns /\ Frozen(x).layer \in Layers
        /\ Frozen(x).id = x.id /\ Frozen(x).version = x.version /\ Frozen(x).born = x.born
        /\ Frozen(x).ttl = x.ttl /\ Frozen(x).saw = x.saw /\ Frozen(x).advice = x.advice
        /\ x.layer \in Layers => Frozen(x) = x
        /\ x.layer \notin Layers => Frozen(x).layer = "case"
  BY FrozenFacts DEF Sound, RecordsSound, RecordSound
<1>3. Ids' = Ids
  BY <1>1, <1>2 DEF Ids
<1>4. Written \subseteq Layers /\ "case" \notin Written
  BY StagesFacts DEF Written
(* A record that is seen is one of a known layer.                          *)
<1>5. ASSUME NEW y, y.layer \in Written, Newer(y) PROVE Newer(y)'
  BY <1>1, <1>2, <1>4, <1>5 DEF Newer
<1>6. ASSUME NEW x \in records PROVE RecordSound(Frozen(x))'
  <2>1. RecordSound(x)
    BY DEF Sound, RecordsSound
  <2>2. PICK z : z = Frozen(x)
    OBVIOUS
  <2>3. /\ DOMAIN z = Columns /\ z.version \in Nat /\ z.born \in Nat /\ z.ttl \in Nat
        /\ z.layer = "reflection" => ~z.advice
        /\ z.saw \subseteq Ids' /\ (z.saw # {} => z.layer \in Written /\ z = x)
    BY <1>2, <1>3, <1>4, <2>1, <2>2, StagesFacts DEF RecordSound
  <2>4. Newer(z)'
    <3>1. CASE z.saw = {}
      BY <3>1 DEF Newer
    <3>2. CASE z.saw # {}
      BY <1>5, <2>1, <2>3, <3>2 DEF RecordSound
    <3> QED
      BY <3>1, <3>2
  <2>5. RecordSound(z)'
    BY <2>3, <2>4 DEF RecordSound
  <2>6. Frozen(x)' = Frozen(x)
    BY DEF Frozen
  <2> QED
    BY <2>2, <2>5
<1>7. RecordsSound'
  <2>1. IsFiniteSet(records')
    <3> DEFINE f == [x \in records |-> Frozen(x)]
    <3>1. f \in Surjection(records, records')
      BY <1>1 DEF Surjection
    <3> QED
      BY <3>1, FS_Surjection DEF Sound, RecordsSound
  <2>2. \A x, y \in records' : x.id = y.id => x = y
    BY <1>1, <1>2 DEF Sound, RecordsSound
  <2> QED
    BY <1>1, <1>3, <1>6, <2>1, <2>2 DEF Sound, RecordsSound
<1>8. ASSUME NEW r \in Runs PROVE hits[r] \in Seq(records')
  <2>1. hits[r] \in Seq(records)
    BY DEF Sound, Shape
  <2>2. \A i \in DOMAIN hits[r] : hits[r][i] \in records /\ hits[r][i].layer \in Layers
    BY <2>1, StagesFacts DEF Sound, HitsSound, HitSound, ReadBefore
  <2>3. \A i \in DOMAIN hits[r] : hits[r][i] \in records'
    BY <1>1, <1>2, <2>2
  <2> QED
    BY <2>1, <2>3
<1>9. Shape'
  BY <1>1, <1>3, <1>8 DEF Sound, Shape
<1>10. ASSUME NEW r \in Runs PROVE DraftSound(r)' /\ HitsSound(r)' /\ RunSound(r)'
  <2>1. DraftSound(r)'
    <3>1. DraftSound(r)
      BY DEF Sound
    <3>2. ASSUME Newer(draft[r]), draft[r].layer \in Written PROVE Newer(draft[r])'
      <4>1. PICK d : d = draft[r] /\ d = draft'[r]
        BY <1>1
      <4>2. Newer(d)'
        BY <1>5, <3>2, <4>1
      <4> QED
        BY <4>1, <4>2
    <3> QED
      BY <1>1, <3>1, <3>2 DEF DraftSound
  <2>2. HitsSound(r)' /\ RunSound(r)'
    BY <1>1 DEF Sound, HitsSound, HitSound, RunSound
  <2> QED
    BY <2>1, <2>2
<1> QED
  BY <1>7, <1>9, <1>10 DEF Sound

LEMMA TickIsSound == Sound /\ Tick => Sound'
<1> SUFFICES ASSUME Sound, Tick PROVE Sound'
  OBVIOUS
<1>1. /\ now' = now + 1 /\ now' \in Nat
      /\ UNCHANGED <<records, pc, started, hits, priors, draft>>
  BY DEF Tick, Sound, Shape
<1>2. Ids' = Ids
  BY <1>1 DEF Ids
<1>3. RecordsSound'
  <2>1. \A x \in records : RecordSound(x)'
    BY <1>1, <1>2 DEF Sound, RecordsSound, RecordSound, Newer
  <2> QED
    BY <1>1, <1>2, <2>1 DEF Sound, RecordsSound
<1>4. Shape'
  BY <1>1, <1>2 DEF Sound, Shape
<1>5. ASSUME NEW r \in Runs PROVE DraftSound(r)' /\ HitsSound(r)' /\ RunSound(r)'
  <2>1. started[r] <= now'
    BY <1>1 DEF Sound, Shape, RunSound
  <2> QED
    BY <1>1, <2>1 DEF Sound, DraftSound, Newer, HitsSound, HitSound, RunSound
<1> QED
  BY <1>3, <1>4, <1>5 DEF Sound

LEMMA SoundNext == Sound /\ [Next]_vars => Sound'
<1> SUFFICES ASSUME Sound, [Next]_vars PROVE Sound'
  OBVIOUS
<1>1. ASSUME NEW r \in Runs, ReadFails(r) \/ Judge(r) \/ Refuse(r) PROVE Sound'
  <2>1. PICK p \in {"over", "work"} : pc' = [pc EXCEPT ![r] = p]
    BY <1>1 DEF ReadFails, Judge, Refuse, GoTo
  <2>2. /\ pc[r] \in Stages /\ hits' = [hits EXCEPT ![r] = <<>>]
        /\ UNCHANGED <<now, records, started, draft>>
    BY <1>1, StagesFacts DEF ReadFails, Judge, Refuse, TraceRead
  <2>3. /\ priors' = [q \in Runs |-> priors'[q]]
        /\ \A q \in Runs \ {r} : priors'[q] = priors[q]
    BY <1>1 DEF ReadFails, Judge, Refuse, Sound, Shape
  <2> QED
    BY <2>1, <2>2, <2>3, ForgettingIsSound
<1>2. CASE UNCHANGED vars
  <2>1. Ids' = Ids
    BY <1>2 DEF vars, Ids
  <2>2. RecordsSound'
    <3>1. \A x \in records : RecordSound(x)'
      BY <1>2, <2>1 DEF vars, Sound, RecordsSound, RecordSound, Newer
    <3> QED
      BY <1>2, <2>1, <3>1 DEF vars, Sound, RecordsSound
  <2>3. Shape'
    BY <1>2, <2>1 DEF vars, Sound, Shape
  <2>4. \A r \in Runs : DraftSound(r)' /\ HitsSound(r)' /\ RunSound(r)'
    BY <1>2 DEF vars, Sound, DraftSound, Newer, HitsSound, HitSound, RunSound
  <2> QED
    BY <2>2, <2>3, <2>4 DEF Sound
<1> QED
  BY <1>1, <1>2, BeginIsSound, ReadLayerIsSound, ConcludeIsSound, ReadVersionIsSound,
     StampIsSound, InsertIsSound, FreezeIsSound, TickIsSound DEF Next, Step

-------------------------------------------------------------------------------
(* What follows.                                                           *)

LEMMA SoundHolds == Spec => []Sound
BY SoundInit, SoundNext, PTL DEF Spec

(* What x is as a prior of a run that asks q and started at t.             *)
PriorSuits(x, q, t) ==
  /\ x.layer # "semantic" => x.family = q.family
  /\ x.layer # "reflection"
  /\ x.ttl # NoTtl => x.born + x.ttl >= t
  /\ q.scope # Unscoped => x.scope \in {NoFilters, q.scope}
  /\ x.suite => Suite
  /\ ~x.answer

AllSuit == \A r \in Runs : \A x \in priors[r] : PriorSuits(x, Question[r], started[r])

(* A run that started has its start for good; only Judge gives it priors,  *)
(* and only from hits that pass the filters.                               *)
LEMMA AllSuitNext == Sound /\ AllSuit /\ [Next]_vars => AllSuit'
<1> SUFFICES ASSUME Sound, AllSuit, [Next]_vars PROVE AllSuit'
  OBVIOUS
<1>1. ASSUME NEW r \in Runs, Begin(r) PROVE AllSuit'
  <2>1. /\ priors[r] = {} /\ priors' = priors
        /\ \A q \in Runs \ {r} : started'[q] = started[q]
    BY <1>1 DEF Begin, Sound, RunSound, Shape
  <2> QED
    BY <2>1 DEF AllSuit
<1>2. ASSUME NEW r \in Runs, Judge(r) PROVE AllSuit'
  <2>1. /\ priors'[r] = {x \in Kept(r) : Advises(x)} /\ started' = started
        /\ \A q \in Runs \ {r} : priors'[q] = priors[q]
    BY <1>2 DEF Judge, Sound, Shape
  <2>2. ASSUME NEW x \in priors'[r] PROVE PriorSuits(x, Question[r], started[r])
    <3>1. PICK i \in DOMAIN hits[r] : x = hits[r][i]
      BY <2>1 DEF Kept, ToSet
    <3>2. /\ Suited(x) /\ Scoped(x, Question[r]) /\ Fitting(x, Question[r]) /\ x.advice
          /\ ~x.answer
      BY <1>2, <2>1, <3>1 DEF Kept, Advises, Judge, TraceRead, Poisoned
    <3>3. HitSound(r, x) /\ RecordSound(x)
      BY <3>1 DEF Sound, HitsSound, RecordsSound, Shape
    <3> QED
      BY <3>2, <3>3 DEF PriorSuits, Suited, Scoped, Fitting, HitSound, RecordSound
  <2> QED
    BY <2>1, <2>2 DEF AllSuit
<1>3. CASE priors' = priors /\ started' = started
  BY <1>3 DEF AllSuit
<1>4. ASSUME NEW r \in Runs, ReadFails(r) PROVE AllSuit'
  <2>1. /\ priors'[r] = {} /\ started' = started
        /\ \A q \in Runs \ {r} : priors'[q] = priors[q]
    BY <1>4 DEF ReadFails, Sound, Shape
  <2> QED
    BY <2>1 DEF AllSuit
<1> QED
  BY <1>1, <1>2, <1>3, <1>4 DEF Next, Step, Tick, FreezeLegacyLayers, ReadLayer, Refuse, Conclude,
     ReadVersion, Stamp, Insert, vars

(* read_layers and read_priors: no read puts a record behind one that its  *)
(* writer had seen, and the priors of a run are cases that suit it.        *)
THEOREM PriorsAreInOrder == Spec => []PriorsAreSound
<1>1. Sound => NewestFirst
  <2> SUFFICES ASSUME Sound, NEW r \in Runs, NEW i \in DOMAIN hits[r], NEW j \in DOMAIN hits[r],
                      hits[r][i].layer = hits[r][j].layer, hits[r][i].id \in hits[r][j].saw,
                      ~(j < i)
               PROVE  FALSE
    BY DEF NewestFirst
  <2>1. /\ hits[r][i] \in records /\ hits[r][j] \in records /\ i \in Int /\ j \in Int
    BY DEF Sound, Shape
  <2>2. hits[r][i].version < hits[r][j].version
    BY <2>1 DEF Sound, RecordsSound, RecordSound, Newer
  <2>3. hits[r][i].version \in Nat /\ hits[r][j].version \in Nat
    BY <2>1 DEF Sound, RecordsSound, RecordSound
  <2>4. i # j
    BY <2>2, <2>3
  <2>5. Precedes(hits[r][i], hits[r][j])
    BY <2>1, <2>4 DEF Sound, HitsSound
  <2> QED
    BY <2>2, <2>3, <2>5 DEF Precedes
<1>2. AllSuit => PriorsSuit
  <2> SUFFICES ASSUME NEW r \in Runs, NEW x, PriorSuits(x, Question[r], started[r]),
                      Question[r].scope # Unscoped
               PROVE  x.scope \notin {Unscoped} \cup
                        {Question[q].scope : q \in {p \in Runs : Question[p].scope # Question[r].scope}}
    BY DEF AllSuit, PriorSuits, PriorsSuit
  <2> QED
    BY QuestionAssumption DEF PriorSuits, NoFilters, Unscoped
<1>3. Init => AllSuit
  BY DEF Init, AllSuit
<1>4. Sound /\ AllSuit => PriorsAreSound
  BY <1>1, <1>2 DEF PriorsAreSound
<1> QED
  BY <1>3, <1>4, AllSuitNext, SoundHolds, PTL DEF Spec

(* A prior was traced when it was read, and its row is still there, if not *)
(* as it was: its layer may have changed.                                  *)
Traced(r) == \A x \in priors[r] :
               /\ x.id \in audited[r]
               /\ \E y \in records : y.id = x.id /\ y.born = x.born

AllTraced == /\ audited = [r \in Runs |-> audited[r]]
             /\ \A r \in Runs : Traced(r)

(* No row goes away, and none changes its id or the time of its creation.  *)
LEMMA RowsRemain ==
  Sound /\ [Next]_vars =>
    \A x \in records : \E y \in records' : y.id = x.id /\ y.born = x.born
<1> SUFFICES ASSUME Sound, [Next]_vars, NEW x \in records
             PROVE  \E y \in records' : y.id = x.id /\ y.born = x.born
  OBVIOUS
<1>1. CASE FreezeLegacyLayers
  <2>1. Frozen(x) \in records'
    BY <1>1 DEF FreezeLegacyLayers, Frozen
  <2>2. Frozen(x).id = x.id /\ Frozen(x).born = x.born
    BY FrozenFacts DEF Sound, RecordsSound, RecordSound
  <2> QED
    BY <2>1, <2>2
<1>2. CASE records \subseteq records'
  BY <1>2
<1> QED
  BY <1>1, <1>2 DEF Next, Step, Tick, Begin, ReadLayer, ReadFails, Judge, Refuse, Conclude,
     ReadVersion, Stamp, Insert, vars

LEMMA AllTracedNext == Sound /\ AllTraced /\ [Next]_vars => AllTraced'
<1> SUFFICES ASSUME Sound, AllTraced, [Next]_vars PROVE AllTraced'
  OBVIOUS
<1>1. ASSUME NEW r \in Runs, priors'[r] = priors[r], audited'[r] = audited[r]
      PROVE  Traced(r)'
  BY <1>1, RowsRemain DEF AllTraced, Traced
<1>2. ASSUME NEW r \in Runs, Judge(r) PROVE AllTraced'
  <2>1. /\ priors'[r] = {x \in Kept(r) : Advises(x)} /\ audited'[r] = {x.id : x \in Kept(r)}
        /\ \A q \in Runs \ {r} : priors'[q] = priors[q] /\ audited'[q] = audited[q]
        /\ audited' = [q \in Runs |-> audited'[q]]
        /\ records' = records
    BY <1>2 DEF Judge, TraceRead, Sound, Shape, AllTraced
  <2>2. \A x \in Kept(r) : x \in records
    BY DEF Kept, ToSet, Sound, Shape
  <2>3. Traced(r)'
    BY <2>1, <2>2 DEF Traced
  <2> QED
    BY <1>1, <2>1, <2>3 DEF AllTraced
<1>3. CASE UNCHANGED <<priors, audited>>
  BY <1>1, <1>3 DEF AllTraced
<1>4. ASSUME NEW r \in Runs, ReadFails(r) PROVE AllTraced'
  <2>1. /\ priors'[r] = {}
        /\ \A q \in Runs \ {r} : priors'[q] = priors[q] /\ audited'[q] = audited[q]
        /\ audited' = [q \in Runs |-> audited'[q]]
    BY <1>4 DEF ReadFails, TraceRead, Sound, Shape, AllTraced
  <2> QED
    BY <1>1, <2>1 DEF AllTraced, Traced
<1> QED
  BY <1>2, <1>3, <1>4 DEF Next, Step, Tick, FreezeLegacyLayers, Begin, ReadLayer, Refuse, Conclude,
     ReadVersion, Stamp, Insert, vars

(* _memory_record_matches_run: the page of a run shows what it could use   *)
(* when it started and what it wrote, and hides no prior of that time.     *)
THEOREM ViewsAreOfTheirTime == Spec => []ViewIsOfItsTime
<1>1. Init => AllTraced
  BY DEF Init, AllTraced, Traced
<1>2. AllTraced => ViewIsOfItsTime
  <2> SUFFICES ASSUME AllTraced, NEW r \in Runs
               PROVE  /\ \A x \in records :
                           /\ x.by = r => x \in View(r)
                           /\ x \in View(r) => x.by = r \/ x.born <= started[r]
                      /\ \A x \in priors[r] :
                           x.born <= started[r] => \E y \in View(r) : y.id = x.id
    BY DEF ViewIsOfItsTime
  <2>1. ASSUME NEW x \in priors[r], x.born <= started[r] PROVE \E y \in View(r) : y.id = x.id
    BY <2>1 DEF AllTraced, Traced, View, Shown
  <2> QED
    BY <2>1 DEF View, Shown
<1> QED
  BY <1>1, <1>2, AllTracedNext, SoundHolds, PTL DEF Spec
===============================================================================
