------------------------- MODULE CatalogTransferProofs -------------------------
(***************************************************************************)
(* The catalog, the copy that upload makes of it and the database that      *)
(* apply-db brings it to never offer a manifest without the rows of what it *)
(* was hashed over, for any datasets, outputs and bounds, whatever dies and *)
(* wherever the commands interleave, until a lost update is written.        *)
(***************************************************************************)
EXTENDS CatalogTransfer, SequenceTheorems, FiniteSetTheorems, TLAPS

-----------------------------------------------------------------------------
(* What the variables hold.                                                 *)
Hashes == {BuildingHash} \cup {HashOf(objects) : objects \in SUBSET Objects}
ManifestRows == [status : Statuses \cup {"none"}, hash : Hashes, lists : SUBSET Objects]
Tables == [manifests : [Ids -> ManifestRows], storage : SUBSET Objects,
           relations : SUBSET (Ids \X Objects)]

Writes == [table : {"manifests", "storage", "relations"},
           key : Ids \cup Objects \cup (Ids \X Objects), row : ManifestRows]
HeldTables == [Ids -> ManifestRows] \cup (SUBSET Objects) \cup (SUBSET (Ids \X Objects))
Commands == [phase : {"idle", "building", "writing"}, id : Ids \cup {<<>>},
             new : Objects \cup {<<>>}, todo : Seq(Writes), held : Seq(HeldTables)]

TablesTyped ==
    /\ manifests \in [Ids -> ManifestRows]
    /\ storage \subseteq local /\ local \subseteq Objects
    /\ relations \subseteq Ids \X local /\ IsFiniteSet(relations)

(* A command writes manifests of its own dataset and rows of stored objects. *)
Fits(d, w) ==
    /\ w.table = "manifests" => w.key \in {d} \X Revisions /\ w.row # NoRow
    /\ w.table = "storage" => w.key \in local
    /\ w.table = "relations" => w.key \in Ids \X local

(* What it read is a version of the table it is about to write. *)
HeldFits(p) ==
    p.held # NoTable =>
        /\ p.todo # <<>>
        /\ Head(p.todo).table = "manifests" => Head(p.held) \in [Ids -> ManifestRows]
        /\ Head(p.todo).table = "storage" => Head(p.held) \subseteq local
        /\ Head(p.todo).table = "relations" =>
              Head(p.held) \subseteq Ids \X local /\ IsFiniteSet(Head(p.held))

CommandTyped(d) ==
    /\ pub[d].phase = "idle" => pub[d] = Idle
    /\ pub[d].phase # "idle" => pub[d].id \in {d} \X Revisions /\ pub[d].new \in Objects
    /\ \A i \in 1..Len(pub[d].todo) : Fits(d, pub[d].todo[i])
    /\ HeldFits(pub[d])

ReadersTyped ==
    /\ upl \in [phase : {"idle", "put", "storage", "relations"}, rows : SUBSET Objects,
                uploaded : SUBSET Objects, raced : BOOLEAN]
    /\ app \in [phase : {"idle", "storage", "relations", "check", "commit"}, ops : Tables]
    /\ copy \in Tables /\ db \in Tables

Typed ==
    /\ TablesTyped /\ ReadersTyped
    /\ pub \in [Datasets -> Commands]
    /\ \A d \in Datasets : CommandTyped(d)

-----------------------------------------------------------------------------
(* Every manifest, whatever its status, has the rows of what it lists: the   *)
(* status of a manifest that is retired changes without them.               *)
Whole(tables) ==
    \A id \in Ids : \A o \in tables.manifests[id].lists :
        o \in tables.storage /\ <<id, o>> \in tables.relations

Before(todo, i, w) == \E j \in 1..(i - 1) : todo[j] = w

(* What a manifest row lists has its rows, or they are written before it.    *)
Covered(d) ==
    \A i \in 1..Len(pub[d].todo) : pub[d].todo[i].table = "manifests" =>
        \A o \in pub[d].todo[i].row.lists :
            /\ o \in storage \/ Before(pub[d].todo, i, Write("storage", o, NoRow))
            /\ \/ <<pub[d].todo[i].key, o>> \in relations
               \/ Before(pub[d].todo, i,
                         Write("relations", <<pub[d].todo[i].key, o>>, NoRow))

(* The destination has the manifests as they are, then the objects, then the *)
(* relations, unless a command wrote meanwhile; it never knows a manifest     *)
(* the catalog does not.                                                    *)
UploadFollows ==
    /\ upl.phase # "idle" => ~copied
    /\ upl.phase = "put" /\ ~upl.raced => storage \subseteq upl.uploaded \cup upl.rows
    /\ upl.phase = "storage" /\ ~upl.raced => storage \subseteq upl.uploaded
    /\ upl.phase = "relations" /\ ~upl.raced => storage \subseteq copy.storage
    /\ upl.phase \in {"storage", "relations"} /\ ~upl.raced => copy.manifests = manifests
    /\ \A id \in Ids : copy.manifests[id] # NoRow => manifests[id] # NoRow
    /\ copied => Whole(copy)

(* The manifests apply-db read are covered by the tables it read after them,  *)
(* or will read.                                                            *)
ApplyFollows ==
    /\ Whole(db)
    /\ app.phase # "idle" =>
          \A id \in Ids : \A o \in app.ops.manifests[id].lists :
              /\ o \in IF app.phase = "storage" THEN storage ELSE app.ops.storage
              /\ <<id, o>> \in IF app.phase \in {"storage", "relations"} THEN relations
                               ELSE app.ops.relations

Sound == Whole(Table) /\ (\A d \in Datasets : Covered(d)) /\ UploadFollows /\ ApplyFollows

(* Nothing is claimed of what follows the first lost update. *)
TransferInv == Typed /\ clobbered \in BOOLEAN /\ (clobbered \/ Sound)

-----------------------------------------------------------------------------
(* Greatest elements, and the rows of a set of objects.                      *)
LEMMA LeastExists ==
  ASSUME NEW T \in SUBSET Nat, T # {}
  PROVE  \E x \in T : \A y \in T : x <= y
<1>1. PICK x \in T : \A y \in T : <<y, x>> \notin OpToRel(<, Nat)
  BY NatLessThanWellFounded, WFMin
<1>2. \A y \in T : ~(y < x)
  BY <1>1 DEF OpToRel
<1> QED BY <1>2

LEMMA GreatestExists ==
  ASSUME NEW n \in Nat, NEW T \in SUBSET (1..n), T # {}
  PROVE  \E x \in T : \A y \in T : y <= x
<1> DEFINE U == {k \in Nat : n - k \in T}
<1>1. U # {}
  <2>1. PICK t \in T : TRUE
    OBVIOUS
  <2>2. n - t \in Nat /\ n - (n - t) = t
    OBVIOUS
  <2>3. n - t \in U
    BY <2>2
  <2> QED BY <2>3
<1>2. PICK x \in U : \A y \in U : x <= y
  BY <1>1, LeastExists
<1>3. n - x \in T /\ x \in Nat
  OBVIOUS
<1>4. ASSUME NEW y \in T PROVE y <= n - x
  <2>1. n - y \in Nat /\ n - (n - y) = y /\ y \in Nat
    OBVIOUS
  <2>2. n - y \in U
    BY <2>1
  <2>3. x <= n - y
    BY <1>2, <2>2
  <2> QED BY <1>3, <2>1, <2>3
<1> QED BY <1>3, <1>4

(* The latest available revision is one, or there is none. *)
LEMMA LatestIsAvailable ==
  ASSUME NEW d \in Datasets
  PROVE  /\ Latest(d) \in 0..MaxRevision
         /\ Latest(d) # 0 => /\ Latest(d) \in Revisions
                             /\ manifests[<<d, Latest(d)>>].status = "AVAILABLE"
<1> DEFINE available == {r \in Revisions : manifests[<<d, r>>].status = "AVAILABLE"}
<1>1. MaxRevision \in Nat
  BY TransferAssumption
<1>2. CASE available = {}
  BY <1>1, <1>2 DEF Latest
<1>3. CASE available # {}
  <2>1. \E x \in available : \A y \in available : y <= x
    BY <1>1, <1>3, GreatestExists DEF Revisions
  <2>2. Latest(d) = CHOOSE r \in available : \A q \in available : q <= r
    BY <1>3 DEF Latest
  <2> HIDE DEF available
  <2>3. Latest(d) \in available
    BY <2>1, <2>2
  <2> QED BY <1>1, <2>3 DEF available, Revisions
<1> QED BY <1>2, <1>3

LEMMA SetToSeqOfFinite ==
  ASSUME NEW S, IsFiniteSet(S)
  PROVE  /\ Cardinality(S) \in Nat
         /\ SetToSeq(S) \in [1..Cardinality(S) -> S]
         /\ \A x \in S : \E i \in 1..Cardinality(S) : SetToSeq(S)[i] = x
<1>1. Cardinality(S) \in Nat /\ ExistsBijection(1..Cardinality(S), S)
  BY FS_CardinalityType
<1>2. \E f \in [1..Cardinality(S) -> S] : IsInjective(f)
  BY <1>1 DEF ExistsBijection, Bijection, Injection
<1>3. SetToSeq(S) \in [1..Cardinality(S) -> S] /\ IsInjective(SetToSeq(S))
  BY <1>2 DEF SetToSeq
<1>4. SetToSeq(S) \in Injection(1..Cardinality(S), S)
  BY <1>3 DEF Injection
<1>5. IsFiniteSet(1..Cardinality(S)) /\ Cardinality(1..Cardinality(S)) = Cardinality(S)
  BY <1>1, FS_Interval
<1>6. SetToSeq(S) \in Surjection(1..Cardinality(S), S)
  BY <1>4, <1>5, FS_Injection
<1> QED BY <1>1, <1>3, <1>6 DEF Surjection

LEMMA ListedIsFinite ==
  ASSUME IsFiniteSet(relations), NEW id
  PROVE  IsFiniteSet(Listed(id))
<1> DEFINE f == [o \in Listed(id) |-> <<id, o>>]
<1>1. f \in [Listed(id) -> relations] /\ IsInjective(f)
  BY DEF Listed, IsInjective
<1>2. f \in Injection(Listed(id), relations)
  BY <1>1 DEF Injection
<1> QED BY <1>2, FS_Injection

LEMMA NoRowTyped == NoRow \in ManifestRows
<1>1. HashOf({}) = {}
  BY DEF HashOf
<1>2. {} \in Hashes
  BY <1>1 DEF Hashes
<1> QED BY <1>2 DEF NoRow, ManifestRows

(* The rows of some objects: of each of them both, and nothing else. *)
LEMMA RowsOfObjects ==
  ASSUME NEW id \in Ids, NEW S \in SUBSET Objects, IsFiniteSet(S)
  PROVE  /\ RowsOf(id, S) \in Seq(Writes)
         /\ \A i \in 1..Len(RowsOf(id, S)) : \E o \in S :
               \/ RowsOf(id, S)[i] = Write("storage", o, NoRow)
               \/ RowsOf(id, S)[i] = Write("relations", <<id, o>>, NoRow)
         /\ \A o \in S :
               /\ \E i \in 1..Len(RowsOf(id, S)) :
                     RowsOf(id, S)[i] = Write("storage", o, NoRow)
               /\ \E i \in 1..Len(RowsOf(id, S)) :
                     RowsOf(id, S)[i] = Write("relations", <<id, o>>, NoRow)
<1> DEFINE n == Cardinality(S)
           row == SetToSeq(S)
           e(i) == IF i % 2 = 1 THEN Write("storage", row[(i + 1) \div 2], NoRow)
                   ELSE Write("relations", <<id, row[i \div 2]>>, NoRow)
           rows == [i \in 1..(2 * n) |-> e(i)]
<1>1. n \in Nat /\ row \in [1..n -> S] /\ \A o \in S : \E k \in 1..n : row[k] = o
  BY SetToSeqOfFinite
<1>2. RowsOf(id, S) = rows
  BY DEF RowsOf
<1>3. \A i \in 1..(2 * n) : IF i % 2 = 1 THEN (i + 1) \div 2 \in 1..n ELSE i \div 2 \in 1..n
  BY <1>1
<1> HIDE DEF n, row
<1>4. \A i \in 1..(2 * n) : \E o \in S : \/ rows[i] = Write("storage", o, NoRow)
                                         \/ rows[i] = Write("relations", <<id, o>>, NoRow)
  BY <1>1, <1>3
<1>5. \A o \in S : /\ Write("storage", o, NoRow) \in Writes
                   /\ Write("relations", <<id, o>>, NoRow) \in Writes
  BY NoRowTyped DEF Write, Writes
<1>6. \A i \in 1..(2 * n) : rows[i] \in Writes
  BY <1>4, <1>5
<1>7. rows \in [1..(2 * n) -> Writes]
  <2> HIDE DEF e
  <2> QED BY <1>6
<1>8. 2 * n \in Nat
  BY <1>1
<1>9. rows \in Seq(Writes) /\ Len(rows) = 2 * n
  <2> HIDE DEF rows
  <2>1. \A m \in Nat : rows \in [1..m -> Writes] => rows \in Seq(Writes) /\ Len(rows) = m
    BY SeqDef
  <2> QED BY <1>7, <1>8, <2>1
<1>10. ASSUME NEW o \in S
       PROVE  /\ \E i \in 1..(2 * n) : rows[i] = Write("storage", o, NoRow)
              /\ \E i \in 1..(2 * n) : rows[i] = Write("relations", <<id, o>>, NoRow)
  <2>1. PICK k \in 1..n : row[k] = o
    BY <1>1
  <2>2. /\ 2 * k - 1 \in 1..(2 * n) /\ 2 * k \in 1..(2 * n)
        /\ (2 * k - 1) % 2 = 1 /\ (2 * k) % 2 = 0
        /\ ((2 * k - 1) + 1) \div 2 = k /\ (2 * k) \div 2 = k
    BY <1>1
  <2>3. rows[2 * k - 1] = Write("storage", o, NoRow)
    BY <2>1, <2>2
  <2>4. rows[2 * k] = Write("relations", <<id, o>>, NoRow)
    BY <2>1, <2>2
  <2> QED BY <2>2, <2>3, <2>4
<1> HIDE DEF rows
<1> QED BY <1>2, <1>4, <1>9, <1>10

-----------------------------------------------------------------------------
(* Nothing is there at first. *)
LEMMA InitTransfer == Init => TransferInv
<1> SUFFICES ASSUME Init PROVE TransferInv
  OBVIOUS
<1>1. NoManifests \in [Ids -> ManifestRows] /\ \A id \in Ids : NoManifests[id].lists = {}
  BY NoRowTyped DEF NoManifests, NoRow
<1>2. EmptyTables \in Tables /\ Whole(EmptyTables)
  BY <1>1 DEF EmptyTables, Tables, Whole
<1>3. TablesTyped
  BY <1>1, FS_EmptySet DEF Init, TablesTyped
<1>4. ReadersTyped
  BY <1>2 DEF Init, ReadersTyped, IdleUpload, IdleApply
<1>5. Idle \in Commands /\ Idle.todo = <<>> /\ Idle.held = NoTable
  BY EmptySeq DEF Idle, Commands, NoTable
<1>6. \A d \in Datasets : pub[d] = Idle /\ Idle.phase = "idle"
  BY DEF Init, Idle
<1>7. \A d \in Datasets : CommandTyped(d) /\ Covered(d)
  BY <1>5, <1>6, EmptySeq DEF CommandTyped, HeldFits, Covered
<1>8. Whole(Table)
  BY <1>1 DEF Init, Table, Whole
<1>9. UploadFollows /\ ApplyFollows
  BY <1>2 DEF Init, UploadFollows, ApplyFollows, EmptyTables, NoManifests, IdleUpload, IdleApply
<1>10. pub \in [Datasets -> Commands] /\ clobbered \in BOOLEAN
  BY <1>5 DEF Init
<1> QED BY <1>3, <1>4, <1>7, <1>8, <1>9, <1>10 DEF TransferInv, Typed, Sound

(* A command that does not move stays as it is while rows are only added. *)
LEMMA CommandStays ==
  ASSUME NEW d \in Datasets, pub'[d] = pub[d], local \subseteq local', CommandTyped(d)
  PROVE  CommandTyped(d)'
<1>1. \A w : Fits(d, w) => Fits(d, w)'
  BY DEF Fits
<1>2. HeldFits(pub[d])'
  BY DEF HeldFits, CommandTyped
<1> QED BY <1>1, <1>2 DEF CommandTyped

LEMMA CoveredStays ==
  ASSUME NEW d \in Datasets, pub'[d] = pub[d], storage \subseteq storage',
         relations \subseteq relations', Covered(d)
  PROVE  Covered(d)'
  BY DEF Covered, Before

LEMMA ApplyStays ==
  ASSUME ApplyFollows, UNCHANGED <<app, db>>, storage \subseteq storage',
         relations \subseteq relations'
  PROVE  ApplyFollows'
<1>1. Whole(db)'
  BY DEF ApplyFollows, Whole
<1>2. ASSUME app.phase # "idle", NEW id \in Ids, NEW o \in app.ops.manifests[id].lists
      PROVE  /\ o \in IF app.phase = "storage" THEN storage' ELSE app.ops.storage
             /\ <<id, o>> \in IF app.phase \in {"storage", "relations"} THEN relations'
                              ELSE app.ops.relations
  BY <1>2 DEF ApplyFollows
<1> QED BY <1>1, <1>2 DEF ApplyFollows

LEMMA UploadStays ==
  ASSUME UploadFollows, UNCHANGED <<upl, copy, copied, manifests, storage>>
  PROVE  UploadFollows'
  BY DEF UploadFollows, Whole

(* Steps of a command that write no table. *)
LEMMA OwnStep ==
  ASSUME TransferInv, ~clobbered, NEW d \in Datasets,
         pub' \in [Datasets -> Commands], \A e \in Datasets \ {d} : pub'[e] = pub[e],
         CommandTyped(d)', Covered(d)',
         UNCHANGED <<manifests, storage, relations, copy, db, upl, app, clobbered, copied>>,
         local \subseteq local', local' \subseteq Objects
  PROVE  TransferInv'
<1>1. Typed /\ Sound
  BY DEF TransferInv
<1>2. TablesTyped' /\ ReadersTyped'
  BY <1>1 DEF Typed, TablesTyped, ReadersTyped, Tables, ManifestRows
<1>3. \A e \in Datasets : CommandTyped(e)' /\ Covered(e)'
  BY <1>1, CommandStays, CoveredStays DEF Typed, Sound
<1>4. Whole(Table)' /\ UploadFollows' /\ ApplyFollows'
  <2>1. Whole(Table)'
    BY <1>1 DEF Sound, Whole, Table
  <2> QED BY <1>1, <2>1, UploadStays, ApplyStays DEF Sound
<1> QED BY <1>2, <1>3, <1>4 DEF TransferInv, Typed, Sound

(* Steps of upload and apply-db. *)
LEMMA ReaderStep ==
  ASSUME TransferInv, ~clobbered, UNCHANGED <<manifests, storage, relations, local, pub, clobbered>>,
         ReadersTyped', UploadFollows', ApplyFollows'
  PROVE  TransferInv'
<1>1. Typed /\ Sound
  BY DEF TransferInv
<1>2. TablesTyped' /\ pub' \in [Datasets -> Commands]
  BY <1>1 DEF Typed, TablesTyped, ManifestRows
<1>3. \A e \in Datasets : CommandTyped(e)' /\ Covered(e)'
  BY <1>1, CommandStays, CoveredStays DEF Typed, Sound
<1>4. Whole(Table)'
  BY <1>1 DEF Sound, Whole, Table
<1> QED BY <1>2, <1>3, <1>4 DEF TransferInv, Typed, Sound

-----------------------------------------------------------------------------
(* A command begins with the row of its BUILDING manifest, which lists nothing. *)
LEMMA BeginStep == ASSUME TransferInv, ~clobbered, NEW d \in Datasets, Begin(d) PROVE TransferInv'
<1>0. /\ pub[d].phase = "idle" /\ Latest(d) < MaxRevision
      /\ UNCHANGED <<manifests, storage, relations, copy, db, upl, app, clobbered, copied>>
      /\ UNCHANGED local
  BY DEF Begin
<1>1. PICK r \in Revisions : r = Latest(d) + 1
  <2>1. Latest(d) \in 0..MaxRevision /\ MaxRevision \in Nat
    BY LatestIsAvailable, TransferAssumption
  <2> QED BY <1>0, <2>1 DEF Revisions
<1> DEFINE id == <<d, r>>
           row == [status |-> "BUILDING", hash |-> BuildingHash, lists |-> {}]
           w == Write("manifests", id, row)
<1>2. PICK o \in Objects :
        pub' = [pub EXCEPT ![d] = [phase |-> "building", id |-> id, new |-> o,
                                   todo |-> <<w>>, held |-> NoTable]]
  BY <1>1 DEF Begin
<1>3. Typed /\ Sound
  BY DEF TransferInv
<1>4. id \in {d} \X Revisions /\ id \in Ids
  BY DEF Ids
<1>5. row \in ManifestRows /\ row # NoRow /\ row.lists = {}
  BY DEF ManifestRows, Hashes, Statuses, NoRow
<1>6. w \in Writes /\ w.table = "manifests" /\ w.key = id /\ w.row = row
  BY <1>4, <1>5 DEF Write, Writes
<1> HIDE DEF id, row, w
<1>7. <<w>> \in Seq(Writes) /\ Len(<<w>>) = 1 /\ <<w>>[1] = w /\ <<w>> # <<>>
  BY <1>6
<1>8. /\ pub' \in [Datasets -> Commands]
      /\ pub'[d].phase = "building" /\ pub'[d].id = id /\ pub'[d].new = o
      /\ pub'[d].todo = <<w>> /\ pub'[d].held = NoTable
      /\ \A e \in Datasets \ {d} : pub'[e] = pub[e]
  BY <1>2, <1>3, <1>4, <1>7, EmptySeq DEF Typed, Commands, NoTable
<1>9. Fits(d, w)'
  BY <1>4, <1>5, <1>6 DEF Fits
<1>10. CommandTyped(d)'
  <2>1. HeldFits(pub[d])'
    BY <1>8 DEF HeldFits
  <2>2. \A i \in 1..Len(pub'[d].todo) : pub'[d].todo[i] = w
    BY <1>7, <1>8
  <2> QED BY <1>4, <1>8, <1>9, <2>1, <2>2 DEF CommandTyped
<1>11. Covered(d)'
  BY <1>5, <1>6, <1>7, <1>8 DEF Covered
<1> QED BY <1>0, <1>3, <1>8, <1>10, <1>11, OwnStep DEF Typed, TablesTyped

(* It dies: nothing is left of it. *)
LEMMA DiesStep == ASSUME TransferInv, ~clobbered, NEW d \in Datasets, Dies(d) PROVE TransferInv'
<1>1. Typed /\ Sound
  BY DEF TransferInv
<1>2. Idle \in Commands /\ Idle.todo = <<>> /\ Idle.held = NoTable /\ Idle.phase = "idle"
  BY EmptySeq DEF Idle, Commands, NoTable
<1>3. /\ pub' \in [Datasets -> Commands] /\ pub'[d] = Idle
      /\ \A e \in Datasets \ {d} : pub'[e] = pub[e]
  BY <1>1, <1>2 DEF Dies, Typed
<1>4. CommandTyped(d)' /\ Covered(d)'
  BY <1>2, <1>3, EmptySeq DEF CommandTyped, HeldFits, Covered
<1> QED BY <1>1, <1>3, <1>4, OwnStep DEF Dies, catalog, Typed, TablesTyped

(* It reads the table it is about to write. *)
LEMMA ReadTableStep ==
  ASSUME TransferInv, ~clobbered, NEW d \in Datasets, ReadTable(d) PROVE TransferInv'
<1>1. Typed /\ Sound
  BY DEF TransferInv
<1>2. /\ pub[d] \in Commands /\ pub[d].todo # <<>> /\ pub[d].todo \in Seq(Writes)
      /\ Head(pub[d].todo) \in Writes
  BY <1>1, HeadTailProperties DEF ReadTable, Typed, Commands
<1> DEFINE w == Head(pub[d].todo)
           rows == Table[w.table]
<1>3. /\ w.table \in {"manifests", "storage", "relations"}
      /\ w.table = "manifests" => rows = manifests
      /\ w.table = "storage" => rows = storage
      /\ w.table = "relations" => rows = relations
  BY <1>2 DEF Writes, Table
<1>4. /\ w.table = "manifests" => rows \in [Ids -> ManifestRows]
      /\ w.table = "storage" => rows \subseteq local
      /\ w.table = "relations" => rows \subseteq Ids \X local /\ IsFiniteSet(rows)
      /\ rows \in HeldTables
  BY <1>1, <1>3 DEF Typed, TablesTyped, HeldTables
<1> HIDE DEF rows
<1>5. <<rows>> \in Seq(HeldTables) /\ Head(<<rows>>) = rows
  BY <1>4
<1>6. /\ pub' = [pub EXCEPT ![d].held = <<rows>>]
      /\ UNCHANGED <<manifests, storage, relations, local, copy, db, upl, app, clobbered, copied>>
  BY DEF ReadTable, catalog, rows
<1>7. /\ pub' \in [Datasets -> Commands] /\ \A e \in Datasets \ {d} : pub'[e] = pub[e]
      /\ pub'[d].phase = pub[d].phase /\ pub'[d].id = pub[d].id /\ pub'[d].new = pub[d].new
      /\ pub'[d].todo = pub[d].todo /\ pub'[d].held = <<rows>>
  BY <1>1, <1>2, <1>5, <1>6 DEF Typed, Commands
<1>8. pub[d].phase # "idle"
  BY <1>1, <1>2 DEF Typed, CommandTyped, Idle
<1>9. HeldFits(pub[d])'
  BY <1>2, <1>4, <1>5, <1>6, <1>7 DEF HeldFits
<1>10. CommandTyped(d)'
  <2>1. \A x : Fits(d, x) => Fits(d, x)'
    BY <1>6 DEF Fits
  <2> QED BY <1>1, <1>7, <1>8, <1>9, <2>1 DEF Typed, CommandTyped
<1>11. Covered(d)'
  BY <1>1, <1>6, <1>7 DEF Sound, Covered
<1> QED BY <1>1, <1>6, <1>7, <1>10, <1>11, OwnStep DEF Typed, TablesTyped

-----------------------------------------------------------------------------
(* The rows a command settles on: those of its objects, then the manifest,    *)
(* then the one it retires, if any.                                         *)
Planned(todo, k, id, S, row, tail) ==
    /\ Len(todo) = k + Len(tail)
    /\ todo[k] = Write("manifests", id, row)
    /\ \A i \in 1..(k - 1) : \E o \in S : \/ todo[i] = Write("storage", o, NoRow)
                                         \/ todo[i] = Write("relations", <<id, o>>, NoRow)
    /\ \A o \in S : /\ Before(todo, k, Write("storage", o, NoRow))
                    /\ Before(todo, k, Write("relations", <<id, o>>, NoRow))
    /\ \A i \in 1..Len(tail) : todo[k + i] = tail[i]

LEMMA PlanOf ==
  ASSUME NEW id \in Ids, NEW S \in SUBSET Objects, IsFiniteSet(S), NEW row \in ManifestRows,
         NEW tail \in Seq(Writes), NEW todo,
         todo = RowsOf(id, S) \o << Write("manifests", id, row) >> \o tail
  PROVE  todo \in Seq(Writes) /\ \E k \in Nat \ {0} : Planned(todo, k, id, S, row, tail)
<1> DEFINE rows == RowsOf(id, S)
           w == Write("manifests", id, row)
           k == Len(rows) + 1
<1>1. rows \in Seq(Writes) /\ Len(rows) \in Nat
  BY RowsOfObjects, LenProperties
<1>2. w \in Writes
  BY DEF Write, Writes
<1>3. /\ \A i \in 1..Len(rows) : \E o \in S : \/ rows[i] = Write("storage", o, NoRow)
                                             \/ rows[i] = Write("relations", <<id, o>>, NoRow)
      /\ \A o \in S : /\ \E i \in 1..Len(rows) : rows[i] = Write("storage", o, NoRow)
                      /\ \E i \in 1..Len(rows) : rows[i] = Write("relations", <<id, o>>, NoRow)
  BY RowsOfObjects
<1>4. todo = rows \o <<w>> \o tail
  OBVIOUS
<1> HIDE DEF rows, w
<1>5. <<w>> \in Seq(Writes) /\ Len(<<w>>) = 1 /\ <<w>>[1] = w
  BY <1>2
<1>6. /\ rows \o <<w>> \in Seq(Writes) /\ Len(rows \o <<w>>) = Len(rows) + 1
      /\ \A i \in 1..Len(rows) + 1 :
            (rows \o <<w>>)[i] = IF i <= Len(rows) THEN rows[i] ELSE <<w>>[i - Len(rows)]
  BY <1>1, <1>5, ConcatProperties
<1>7. Len(tail) \in Nat
  BY LenProperties
<1>8. /\ todo \in Seq(Writes) /\ Len(todo) = k + Len(tail)
      /\ \A i \in 1..(k + Len(tail)) :
            todo[i] = IF i <= k THEN (rows \o <<w>>)[i] ELSE tail[i - k]
  <2> DEFINE both == rows \o <<w>>
  <2>1. both \in Seq(Writes) /\ Len(both) = k /\ todo = both \o tail
    BY <1>4, <1>6
  <2> HIDE DEF both, k
  <2>2. /\ both \o tail \in Seq(Writes) /\ Len(both \o tail) = Len(both) + Len(tail)
        /\ \A i \in 1..Len(both) + Len(tail) :
              (both \o tail)[i] = IF i <= Len(both) THEN both[i] ELSE tail[i - Len(both)]
    BY <2>1, ConcatProperties
  <2>3. /\ todo \in Seq(Writes) /\ Len(todo) = k + Len(tail)
        /\ \A i \in 1..(k + Len(tail)) : todo[i] = IF i <= k THEN both[i] ELSE tail[i - k]
    BY <2>1, <2>2
  <2> QED BY <2>3 DEF both
<1>9. \A i \in 1..Len(rows) : todo[i] = rows[i]
  <2> SUFFICES ASSUME NEW i \in 1..Len(rows) PROVE todo[i] = rows[i]
    OBVIOUS
  <2>1. i \in 1..(k + Len(tail)) /\ i <= k /\ i \in 1..Len(rows) + 1 /\ i <= Len(rows)
    BY <1>1, <1>7
  <2> QED BY <1>6, <1>8, <2>1
<1>10. todo[k] = w
  <2>1. k \in 1..(k + Len(tail)) /\ k <= k
    BY <1>1, <1>7
  <2>2. k \in 1..Len(rows) + 1 /\ ~(k <= Len(rows)) /\ k - Len(rows) = 1
    BY <1>1
  <2>3. todo[k] = (rows \o <<w>>)[k]
    BY <1>8, <2>1
  <2>4. (rows \o <<w>>)[k] = <<w>>[k - Len(rows)]
    BY <1>6, <2>2
  <2> QED BY <1>5, <2>2, <2>3, <2>4
<1>11. \A i \in 1..Len(tail) : todo[k + i] = tail[i]
  BY <1>1, <1>7, <1>8
<1>12. k - 1 = Len(rows) /\ k \in Nat \ {0}
  BY <1>1
<1>a. 1..(k - 1) = 1..Len(rows)
  BY <1>12
<1> HIDE DEF k
<1>13. \A o \in S : /\ Before(todo, k, Write("storage", o, NoRow))
                    /\ Before(todo, k, Write("relations", <<id, o>>, NoRow))
  BY <1>3, <1>9, <1>a DEF Before
<1>14. \A i \in 1..(k - 1) : \E o \in S : \/ todo[i] = Write("storage", o, NoRow)
                                          \/ todo[i] = Write("relations", <<id, o>>, NoRow)
  <2> SUFFICES ASSUME NEW i \in 1..(k - 1)
               PROVE  \E o \in S : \/ todo[i] = Write("storage", o, NoRow)
                                   \/ todo[i] = Write("relations", <<id, o>>, NoRow)
    OBVIOUS
  <2>1. i \in 1..Len(rows)
    BY <1>12
  <2>2. todo[i] = rows[i]
    BY <1>9, <2>1
  <2> QED BY <1>3, <2>1, <2>2
<1>15. Planned(todo, k, id, S, row, tail)
  BY <1>8, <1>10, <1>11, <1>13, <1>14 DEF w, Planned
<1> QED BY <1>8, <1>12, <1>15

(* The row a manifest is retired with. *)
RetiredRow(id) == [manifests[id] EXCEPT !.status = "SUPERSEDED"]

LEMMA RetiredRowIs ==
  ASSUME Typed, NEW id \in Ids
  PROVE  /\ RetiredRow(id) \in ManifestRows /\ RetiredRow(id) # NoRow
         /\ RetiredRow(id).status = "SUPERSEDED"
         /\ RetiredRow(id).lists = manifests[id].lists
         /\ RetiredRow(id).hash = manifests[id].hash
<1>1. manifests[id] \in ManifestRows
  BY DEF Typed, TablesTyped
<1> QED BY <1>1 DEF RetiredRow, ManifestRows, Statuses, NoRow

(* A command retires the manifest it takes the retained objects from, if it    *)
(* stored its object and there is one.                                       *)
LEMMA TailIs ==
  ASSUME Typed, NEW d \in Datasets, NEW stored \in BOOLEAN, NEW tail,
         tail = IF stored THEN Retired(d) ELSE <<>>
  PROVE  /\ tail \in Seq(Writes)
         /\ tail # <<>> =>
               \E r \in Revisions :
                  /\ stored /\ r = Latest(d) /\ manifests[<<d, r>>].status = "AVAILABLE"
                  /\ tail = << Write("manifests", <<d, r>>, RetiredRow(<<d, r>>)) >>
<1>1. CASE ~stored \/ Latest(d) = 0
  BY <1>1, EmptySeq DEF Retired
<1>2. CASE stored /\ Latest(d) # 0
  <2>1. PICK r \in Revisions : r = Latest(d) /\ manifests[<<d, r>>].status = "AVAILABLE"
    BY <1>2, LatestIsAvailable
  <2> DEFINE w == Write("manifests", <<d, r>>, RetiredRow(<<d, r>>))
  <2>2. tail = <<w>>
    BY <1>2, <2>1 DEF Retired, RetiredRow
  <2>3. <<d, r>> \in Ids
    BY DEF Ids
  <2>4. w \in Writes
    BY <2>3, RetiredRowIs DEF Write, Writes
  <2> HIDE DEF w
  <2>5. <<w>> \in Seq(Writes)
    BY <2>4
  <2> QED BY <1>2, <2>1, <2>2, <2>5 DEF w
<1> QED BY <1>1, <1>2

(* The objects that stay are of the latest manifest, stored, and few enough. *)
LEMMA RetainedIs ==
  ASSUME TablesTyped, NEW d \in Datasets, NEW new
  PROVE  /\ Retained(d, new) \subseteq local /\ Retained(d, new) \subseteq Objects
         /\ IsFiniteSet(Retained(d, new))
         /\ Retained(d, new) \subseteq Listed(<<d, Latest(d)>>)
<1>1. CASE Latest(d) = 0
  BY <1>1, FS_EmptySet DEF Retained
<1>2. CASE Latest(d) # 0
  <2>1. Retained(d, new) \subseteq Listed(<<d, Latest(d)>>)
    BY <1>2 DEF Retained
  <2>2. Listed(<<d, Latest(d)>>) \subseteq local
    BY DEF Listed, TablesTyped
  <2>3. IsFiniteSet(Listed(<<d, Latest(d)>>))
    BY ListedIsFinite DEF TablesTyped
  <2>4. IsFiniteSet(Retained(d, new))
    BY <2>1, <2>3, FS_Subset
  <2> QED BY <2>1, <2>2, <2>4 DEF TablesTyped
<1> QED BY <1>1, <1>2

(* What a command that settles its rows takes and leaves, in constants. *)
BuildsAs(d, stored, id, new, S, row, tail, todo) ==
    /\ id = pub[d].id /\ new = pub[d].new
    /\ tail = IF stored THEN Retired(d) ELSE <<>>
    /\ S = IF stored THEN Retained(d, new) \cup {new} ELSE Retained(d, new)
    /\ IsFiniteSet(S) /\ S \subseteq local'
    /\ local' = IF stored THEN local \cup {new} ELSE local
    /\ row = [status |-> IF stored THEN "AVAILABLE" ELSE "QUARANTINED",
              hash |-> HashOf(S), lists |-> S]
    /\ todo = RowsOf(id, S) \o << Write("manifests", id, row) >> \o tail
    /\ pub' = [pub EXCEPT ![d].phase = "writing", ![d].todo = todo]

LEMMA BuildIs ==
  ASSUME Typed, NEW d \in Datasets, Build(d)
  PROVE  \E stored \in BOOLEAN, id \in {d} \X Revisions, new \in Objects,
            S \in SUBSET Objects, row \in ManifestRows, tail \in Seq(Writes),
            todo \in Seq(Writes) : BuildsAs(d, stored, id, new, S, row, tail, todo)
<1>1. PICK stored \in BOOLEAN :
        LET p == pub[d]
            retained == Retained(d, p.new)
            objects == IF stored THEN retained \cup {p.new} ELSE retained
            final == [status |-> IF stored THEN "AVAILABLE" ELSE "QUARANTINED",
                      hash |-> HashOf(objects), lists |-> objects]
        IN /\ local' = IF stored THEN local \cup {p.new} ELSE local
           /\ pub' = [pub EXCEPT ![d].phase = "writing", ![d].todo =
                         RowsOf(p.id, objects) \o << Write("manifests", p.id, final) >>
                            \o (IF stored THEN Retired(d) ELSE <<>>)]
  BY DEF Build
<1>2. pub[d].id \in {d} \X Revisions /\ pub[d].new \in Objects /\ pub[d].phase = "building"
  BY DEF Typed, CommandTyped, Build
<1>3. PICK id \in {d} \X Revisions, new \in Objects : id = pub[d].id /\ new = pub[d].new
  BY <1>2
<1>4. /\ Retained(d, new) \subseteq local /\ Retained(d, new) \subseteq Objects
      /\ IsFiniteSet(Retained(d, new))
  BY RetainedIs DEF Typed
<1> DEFINE S == IF stored THEN Retained(d, new) \cup {new} ELSE Retained(d, new)
           row == [status |-> IF stored THEN "AVAILABLE" ELSE "QUARANTINED",
                   hash |-> HashOf(S), lists |-> S]
           tail == IF stored THEN Retired(d) ELSE <<>>
           todo == RowsOf(id, S) \o << Write("manifests", id, row) >> \o tail
<1>5. /\ local' = (IF stored THEN local \cup {new} ELSE local)
      /\ pub' = [pub EXCEPT ![d].phase = "writing", ![d].todo = todo]
  BY <1>1, <1>3
<1>6. S \in SUBSET Objects /\ S \subseteq local' /\ IsFiniteSet(S)
  BY <1>4, <1>5, FS_AddElement
<1> HIDE DEF S
<1>7. row \in ManifestRows
  BY <1>6 DEF ManifestRows, Hashes, Statuses
<1>8. tail \in Seq(Writes)
  BY TailIs
<1> HIDE DEF tail, row
<1>9. id \in Ids
  BY DEF Ids
<1>10. todo \in Seq(Writes)
  BY <1>6, <1>7, <1>8, <1>9, PlanOf
<1>11. BuildsAs(d, stored, id, new, S, row, tail, todo)
  BY <1>3, <1>5, <1>6 DEF BuildsAs, S, row, tail
<1> HIDE DEF todo
<1> QED BY <1>6, <1>7, <1>8, <1>10, <1>11

(* Where a row of a plan stands. *)
LEMMA PlanIndex ==
  ASSUME NEW k \in Nat \ {0}, NEW n \in Nat, NEW i \in 1..(k + n)
  PROVE  i \in 1..(k - 1) \/ i = k \/ \E j \in 1..n : i = k + j
<1>1. CASE i > k
  <2>1. i - k \in 1..n /\ i = k + (i - k)
    BY <1>1
  <2> QED BY <2>1
<1> QED BY <1>1

(* The rows a command settles on are covered: those of its manifest come      *)
(* first, and what it retires has its own.                                  *)
LEMMA BuildStep == ASSUME TransferInv, ~clobbered, NEW d \in Datasets, Build(d) PROVE TransferInv'
<1>1. Typed /\ Sound
  BY DEF TransferInv
<1>2. PICK stored \in BOOLEAN, id \in {d} \X Revisions, new \in Objects,
           S \in SUBSET Objects, row \in ManifestRows, tail \in Seq(Writes),
           todo \in Seq(Writes) : BuildsAs(d, stored, id, new, S, row, tail, todo)
  BY <1>1, BuildIs
<1>3. id \in Ids /\ IsFiniteSet(S) /\ S \subseteq local' /\ Len(tail) \in Nat
  BY <1>2, LenProperties DEF BuildsAs, Ids
<1>a. PICK k \in Nat \ {0} : Planned(todo, k, id, S, row, tail)
  <2>1. todo = RowsOf(id, S) \o << Write("manifests", id, row) >> \o tail
    BY <1>2 DEF BuildsAs
  <2> QED BY <1>3, <2>1, PlanOf
<1>4. /\ Len(todo) = k + Len(tail)
      /\ todo[k] = Write("manifests", id, row)
      /\ \A i \in 1..(k - 1) : \E o \in S : \/ todo[i] = Write("storage", o, NoRow)
                                           \/ todo[i] = Write("relations", <<id, o>>, NoRow)
      /\ \A o \in S : /\ Before(todo, k, Write("storage", o, NoRow))
                      /\ Before(todo, k, Write("relations", <<id, o>>, NoRow))
      /\ \A i \in 1..Len(tail) : todo[k + i] = tail[i]
  BY <1>a DEF Planned
<1>b. \A i \in 1..Len(todo) : i \in 1..(k - 1) \/ i = k \/ \E j \in 1..Len(tail) : i = k + j
  BY <1>3, <1>4, PlanIndex
<1>5. /\ UNCHANGED <<manifests, storage, relations, copy, db, upl, app, clobbered, copied>>
      /\ pub[d].phase = "building" /\ pub[d].todo = <<>>
  BY DEF Build
<1>6. pub[d].held = NoTable
  BY <1>1, <1>5 DEF Typed, CommandTyped, HeldFits
<1>7. /\ pub' \in [Datasets -> Commands] /\ \A e \in Datasets \ {d} : pub'[e] = pub[e]
      /\ pub'[d].phase = "writing" /\ pub'[d].id = id /\ pub'[d].new = new
      /\ pub'[d].todo = todo /\ pub'[d].held = NoTable
  <2>1. /\ pub' = [pub EXCEPT ![d].phase = "writing", ![d].todo = todo]
        /\ id = pub[d].id /\ new = pub[d].new
    BY <1>2 DEF BuildsAs
  <2>2. pub[d] \in Commands /\ pub \in [Datasets -> Commands]
    BY <1>1 DEF Typed
  <2> QED BY <1>6, <2>1, <2>2 DEF Commands
<1>8. local \subseteq local' /\ local' \subseteq Objects
  BY <1>1, <1>2 DEF BuildsAs, Typed, TablesTyped
<1>9. row # NoRow /\ row.lists = S
  BY <1>2 DEF BuildsAs, NoRow
<1>13. ASSUME NEW j \in 1..Len(tail)
       PROVE  \E r \in Revisions : tail[j] = Write("manifests", <<d, r>>, RetiredRow(<<d, r>>))
  <2>1. tail # <<>> /\ tail = IF stored THEN Retired(d) ELSE <<>>
    BY <1>2, <1>13, EmptySeq DEF BuildsAs
  <2>2. PICK r \in Revisions : tail = << Write("manifests", <<d, r>>, RetiredRow(<<d, r>>)) >>
    BY <1>1, <2>1, TailIs
  <2>3. Len(tail) = 1
    BY <2>2
  <2>4. j = 1
    BY <1>13, <2>3
  <2> QED BY <2>2, <2>4
<1>10. ASSUME NEW i \in 1..Len(todo) PROVE Fits(d, todo[i])'
  <2>1. CASE i \in 1..(k - 1)
    <3>1. PICK o \in S : \/ todo[i] = Write("storage", o, NoRow)
                         \/ todo[i] = Write("relations", <<id, o>>, NoRow)
      BY <1>4, <2>1
    <3> QED BY <1>3, <3>1 DEF Fits, Write
  <2>2. CASE i = k
    BY <1>4, <1>9, <2>2 DEF Fits, Write
  <2>3. ASSUME NEW j \in 1..Len(tail), i = k + j PROVE Fits(d, todo[i])'
    <3>1. PICK r \in Revisions :
             tail[j] = Write("manifests", <<d, r>>, RetiredRow(<<d, r>>))
      BY <1>13
    <3>2. todo[i] = tail[j] /\ <<d, r>> \in Ids
      BY <1>4, <2>3 DEF Ids
    <3>3. RetiredRow(<<d, r>>) # NoRow
      BY <1>1, <3>2, RetiredRowIs
    <3> QED BY <3>1, <3>2, <3>3 DEF Fits, Write
  <2> QED BY <1>b, <2>1, <2>2, <2>3
<1>11. CommandTyped(d)'
  <2>1. HeldFits(pub[d])'
    BY <1>7 DEF HeldFits
  <2> QED BY <1>7, <1>10, <2>1 DEF CommandTyped
<1>12. ASSUME NEW i \in 1..Len(todo), todo[i].table = "manifests", NEW o \in todo[i].row.lists
       PROVE  /\ o \in storage \/ Before(todo, i, Write("storage", o, NoRow))
              /\ \/ <<todo[i].key, o>> \in relations
                 \/ Before(todo, i, Write("relations", <<todo[i].key, o>>, NoRow))
  <2>1. CASE i \in 1..(k - 1)
    <3>1. \E q \in S : \/ todo[i] = Write("storage", q, NoRow)
                       \/ todo[i] = Write("relations", <<id, q>>, NoRow)
      BY <1>4, <2>1
    <3> QED BY <1>12, <3>1 DEF Write
  <2>2. CASE i = k
    <3>1. todo[i].key = id /\ o \in S
      BY <1>4, <1>9, <1>12, <2>2 DEF Write
    <3> QED BY <1>4, <2>2, <3>1
  <2>3. ASSUME NEW j \in 1..Len(tail), i = k + j
        PROVE  o \in storage /\ <<todo[i].key, o>> \in relations
    <3>1. PICK r \in Revisions :
             tail[j] = Write("manifests", <<d, r>>, RetiredRow(<<d, r>>))
      BY <1>13
    <3>2. todo[i] = tail[j] /\ <<d, r>> \in Ids
      BY <1>4, <2>3 DEF Ids
    <3>3. RetiredRow(<<d, r>>).lists = manifests[<<d, r>>].lists
      BY <1>1, <3>2, RetiredRowIs
    <3>4. todo[i].key = <<d, r>> /\ o \in manifests[<<d, r>>].lists
      BY <1>12, <3>1, <3>2, <3>3 DEF Write
    <3> QED BY <1>1, <3>2, <3>4 DEF Sound, Whole, Table
  <2> QED BY <1>b, <2>1, <2>2, <2>3
<1>14. Covered(d)'
  BY <1>5, <1>7, <1>12 DEF Covered
<1> QED BY <1>1, <1>5, <1>7, <1>8, <1>11, <1>14, OwnStep

-----------------------------------------------------------------------------
(* It writes a row.  Unless the table had changed, the row is added to it, and  *)
(* what a manifest row lists has been written before.                        *)
LEMMA WriteIs ==
  ASSUME Typed, NEW d \in Datasets, WriteTable(d)
  PROVE  \E w \in Writes :
           /\ pub[d].todo # <<>> /\ w = Head(pub[d].todo) /\ w = pub[d].todo[1] /\ Fits(d, w)
           /\ pub[d].phase # "idle"
           /\ manifests' = IF w.table = "manifests" THEN [Head(pub[d].held) EXCEPT ![w.key] = w.row]
                           ELSE manifests
           /\ storage' = IF w.table = "storage" THEN Head(pub[d].held) \cup {w.key} ELSE storage
           /\ relations' = IF w.table = "relations" THEN Head(pub[d].held) \cup {w.key}
                           ELSE relations
           /\ clobbered' = (clobbered \/ Head(pub[d].held) # Table[w.table])
           /\ pub' = [pub EXCEPT ![d] =
                         IF pub[d].phase = "writing" /\ Len(pub[d].todo) = 1 THEN Idle
                         ELSE [pub[d] EXCEPT !.todo = Tail(pub[d].todo), !.held = NoTable]]
<1>1. pub[d].todo \in Seq(Writes) /\ pub[d].todo # <<>> /\ Len(pub[d].todo) \in Nat \ {0}
  BY EmptySeq DEF WriteTable, Typed, Commands
<1>2. PICK w \in Writes : w = Head(pub[d].todo) /\ w = pub[d].todo[1]
  BY <1>1, HeadTailProperties
<1>3. Fits(d, w) /\ pub[d].phase # "idle"
  BY <1>1, <1>2 DEF Typed, CommandTyped, Idle
<1>4. w.table \in {"manifests", "storage", "relations"}
  BY DEF Writes
<1> QED BY <1>1, <1>2, <1>3, <1>4 DEF WriteTable, Upserted

(* Its rows move up. *)
LEMMA RestIs ==
  ASSUME Typed, NEW d \in Datasets, WriteTable(d)
  PROVE  /\ pub' \in [Datasets -> Commands] /\ \A e \in Datasets \ {d} : pub'[e] = pub[e]
         /\ pub'[d].held = NoTable
         /\ \/ pub'[d] = Idle /\ Idle.todo = <<>> /\ Idle.phase = "idle"
            \/ /\ pub'[d].phase = pub[d].phase /\ pub'[d].id = pub[d].id
               /\ pub'[d].new = pub[d].new /\ pub[d].phase # "idle"
               /\ pub'[d].phase = "writing" => pub'[d].todo # <<>>
         /\ Len(pub'[d].todo) \in Nat
         /\ \A i \in 1..Len(pub'[d].todo) :
               i + 1 \in 1..Len(pub[d].todo) /\ pub'[d].todo[i] = pub[d].todo[i + 1]
<1>1. /\ pub[d].todo \in Seq(Writes) /\ pub[d].todo # <<>> /\ pub[d].phase # "idle"
      /\ pub[d] \in Commands /\ pub \in [Datasets -> Commands]
      /\ pub' = [pub EXCEPT ![d] =
                    IF pub[d].phase = "writing" /\ Len(pub[d].todo) = 1 THEN Idle
                    ELSE [pub[d] EXCEPT !.todo = Tail(pub[d].todo), !.held = NoTable]]
  BY WriteIs DEF Typed, Commands
<1>2. /\ Len(pub[d].todo) \in Nat \ {0} /\ Tail(pub[d].todo) \in Seq(Writes)
      /\ Len(Tail(pub[d].todo)) = Len(pub[d].todo) - 1
      /\ \A i \in 1..Len(Tail(pub[d].todo)) : Tail(pub[d].todo)[i] = pub[d].todo[i + 1]
  BY <1>1, EmptySeq, HeadTailProperties
<1>3. Idle \in Commands /\ Idle.todo = <<>> /\ Idle.held = NoTable /\ Idle.phase = "idle"
  BY EmptySeq DEF Idle, Commands, NoTable
<1>4. CASE pub[d].phase = "writing" /\ Len(pub[d].todo) = 1
  <2>1. pub' = [pub EXCEPT ![d] = Idle]
    BY <1>1, <1>4
  <2>2. Len(Idle.todo) = 0
    BY <1>3, EmptySeq
  <2> QED BY <1>1, <1>3, <2>1, <2>2
<1>5. CASE ~(pub[d].phase = "writing" /\ Len(pub[d].todo) = 1)
  <2> DEFINE p == [pub[d] EXCEPT !.todo = Tail(pub[d].todo), !.held = NoTable]
  <2>1. pub' = [pub EXCEPT ![d] = p]
    BY <1>1, <1>5
  <2>2. NoTable \in Seq(HeldTables)
    BY EmptySeq DEF NoTable
  <2>3. /\ p \in Commands /\ p.phase = pub[d].phase /\ p.id = pub[d].id /\ p.new = pub[d].new
        /\ p.todo = Tail(pub[d].todo) /\ p.held = NoTable
    BY <1>1, <1>2, <2>2 DEF Commands
  <2> HIDE DEF p
  <2>4. pub' \in [Datasets -> Commands] /\ pub'[d] = p /\ \A e \in Datasets \ {d} : pub'[e] = pub[e]
    BY <1>1, <2>1, <2>3
  <2>5. \A i \in 1..Len(p.todo) : i + 1 \in 1..Len(pub[d].todo) /\ p.todo[i] = pub[d].todo[i + 1]
    BY <1>2, <2>3
  <2>6. p.phase = "writing" => p.todo # <<>>
    <3>1. p.phase = "writing" => Len(p.todo) # 0
      BY <1>2, <1>5, <2>3
    <3> QED BY <3>1, EmptySeq
  <2>7. Len(p.todo) \in Nat
    BY <1>2, <2>3
  <2> QED BY <1>1, <2>3, <2>4, <2>5, <2>6, <2>7
<1> QED BY <1>4, <1>5

LEMMA WriteKeepsTypes ==
  ASSUME Typed, NEW d \in Datasets, WriteTable(d) PROVE TablesTyped' /\ local' = local
<1>1. PICK w \in Writes :
        /\ w = Head(pub[d].todo) /\ Fits(d, w)
        /\ manifests' = IF w.table = "manifests" THEN [Head(pub[d].held) EXCEPT ![w.key] = w.row]
                        ELSE manifests
        /\ storage' = IF w.table = "storage" THEN Head(pub[d].held) \cup {w.key} ELSE storage
        /\ relations' = IF w.table = "relations" THEN Head(pub[d].held) \cup {w.key}
                        ELSE relations
  BY WriteIs
<1>2. TablesTyped /\ local' = local /\ HeldFits(pub[d]) /\ pub[d].held # NoTable
  BY DEF Typed, CommandTyped, WriteTable
<1>3. /\ w.table = "manifests" => Head(pub[d].held) \in [Ids -> ManifestRows]
      /\ w.table = "storage" => Head(pub[d].held) \subseteq local
      /\ w.table = "relations" =>
            Head(pub[d].held) \subseteq Ids \X local /\ IsFiniteSet(Head(pub[d].held))
  BY <1>1, <1>2 DEF HeldFits
<1>4. w.row \in ManifestRows
  BY DEF Writes
<1>5. manifests' \in [Ids -> ManifestRows]
  <2> HIDE DEF ManifestRows
  <2> QED BY <1>1, <1>2, <1>3, <1>4 DEF TablesTyped
<1>6. storage' \subseteq local
  BY <1>1, <1>2, <1>3 DEF TablesTyped, Fits
<1>7. relations' \subseteq Ids \X local
  BY <1>1, <1>2, <1>3 DEF TablesTyped, Fits
<1>8. IsFiniteSet(relations')
  <2>1. CASE w.table = "relations"
    <3>1. relations' = Head(pub[d].held) \cup {w.key}
      BY <1>1, <2>1
    <3> QED BY <1>3, <2>1, <3>1, FS_AddElement
  <2>2. CASE w.table # "relations"
    BY <1>1, <1>2, <2>2 DEF TablesTyped
  <2> QED BY <2>1, <2>2
<1>9. (local \subseteq Objects) /\ local' = local
  BY <1>2 DEF TablesTyped
<1> QED BY <1>5, <1>6, <1>7, <1>8, <1>9 DEF TablesTyped

(* Without a lost update a write adds its row to the table. *)
LEMMA WriteAdds ==
  ASSUME Typed, NEW d \in Datasets, WriteTable(d), ~clobbered'
  PROVE  \E w \in Writes :
           /\ w = pub[d].todo[1] /\ Fits(d, w) /\ pub[d].todo # <<>>
           /\ manifests' = IF w.table = "manifests" THEN [manifests EXCEPT ![w.key] = w.row]
                           ELSE manifests
           /\ storage' = IF w.table = "storage" THEN storage \cup {w.key} ELSE storage
           /\ relations' = IF w.table = "relations" THEN relations \cup {w.key} ELSE relations
<1>1. PICK w \in Writes :
        /\ pub[d].todo # <<>> /\ w = pub[d].todo[1] /\ Fits(d, w)
        /\ manifests' = IF w.table = "manifests" THEN [Head(pub[d].held) EXCEPT ![w.key] = w.row]
                        ELSE manifests
        /\ storage' = IF w.table = "storage" THEN Head(pub[d].held) \cup {w.key} ELSE storage
        /\ relations' = IF w.table = "relations" THEN Head(pub[d].held) \cup {w.key}
                        ELSE relations
        /\ clobbered' = (clobbered \/ Head(pub[d].held) # Table[w.table])
  BY WriteIs
<1>2. Head(pub[d].held) = Table[w.table]
  BY <1>1
<1>3. /\ w.table = "manifests" => Head(pub[d].held) = manifests
      /\ w.table = "storage" => Head(pub[d].held) = storage
      /\ w.table = "relations" => Head(pub[d].held) = relations
  BY <1>2 DEF Table
<1> QED BY <1>1, <1>3

LEMMA WriteTableStep ==
  ASSUME TransferInv, ~clobbered, NEW d \in Datasets, WriteTable(d) PROVE TransferInv'
<1>1. Typed /\ Sound
  BY DEF TransferInv
<1>2. /\ UNCHANGED <<local, copy, db, app, copied>>
      /\ upl' = [upl EXCEPT !.raced = upl.phase # "idle"]
  BY DEF WriteTable
<1>3. TablesTyped'
  BY <1>1, WriteKeepsTypes
<1>4. ReadersTyped'
  BY <1>1, <1>2 DEF Typed, ReadersTyped, Tables, ManifestRows
<1>5. /\ pub' \in [Datasets -> Commands] /\ \A e \in Datasets \ {d} : pub'[e] = pub[e]
      /\ pub'[d].held = NoTable /\ Len(pub'[d].todo) \in Nat
      /\ \/ pub'[d] = Idle /\ Idle.todo = <<>> /\ Idle.phase = "idle"
         \/ /\ pub'[d].phase = pub[d].phase /\ pub'[d].id = pub[d].id
            /\ pub'[d].new = pub[d].new /\ pub[d].phase # "idle"
      /\ \A i \in 1..Len(pub'[d].todo) :
            i + 1 \in 1..Len(pub[d].todo) /\ pub'[d].todo[i] = pub[d].todo[i + 1]
  BY <1>1, RestIs
<1>6. CommandTyped(d)'
  <2>1. HeldFits(pub[d])'
    BY <1>5 DEF HeldFits
  <2>2. \A x : Fits(d, x) => Fits(d, x)'
    BY <1>2 DEF Fits
  <2>3. \A i \in 1..Len(pub'[d].todo) : Fits(d, pub[d].todo[i])'
    BY <1>1, <1>5, <2>2 DEF Typed, CommandTyped
  <2>4. /\ pub'[d].phase = "idle" => pub'[d] = Idle
        /\ pub'[d].phase # "idle" => pub'[d].id \in {d} \X Revisions /\ pub'[d].new \in Objects
    BY <1>1, <1>5 DEF Typed, CommandTyped
  <2> QED BY <2>1, <2>3, <2>4 DEF CommandTyped
<1>7. \A e \in Datasets : CommandTyped(e)'
  BY <1>1, <1>2, <1>5, <1>6, CommandStays DEF Typed
<1>8. clobbered' \in BOOLEAN
  BY DEF WriteTable
<1>9. ASSUME ~clobbered' PROVE Sound'
  <2>1. PICK w \in Writes :
          /\ w = pub[d].todo[1] /\ Fits(d, w) /\ pub[d].todo # <<>>
          /\ manifests' = IF w.table = "manifests" THEN [manifests EXCEPT ![w.key] = w.row]
                          ELSE manifests
          /\ storage' = IF w.table = "storage" THEN storage \cup {w.key} ELSE storage
          /\ relations' = IF w.table = "relations" THEN relations \cup {w.key} ELSE relations
    BY <1>1, <1>9, WriteAdds
  <2>2. /\ pub[d].todo \in Seq(Writes) /\ Len(pub[d].todo) \in Nat \ {0}
        /\ manifests \in [Ids -> ManifestRows]
    BY <1>1, <2>1, EmptySeq DEF Typed, Commands, TablesTyped
  <2>3. storage \subseteq storage' /\ relations \subseteq relations'
    BY <2>1
  <2>4. Whole(Table)'
    <3> SUFFICES ASSUME NEW id \in Ids, NEW o \in manifests'[id].lists
                 PROVE  o \in storage /\ <<id, o>> \in relations
      BY <2>3 DEF Whole, Table
    <3>1. CASE w.table = "manifests" /\ id = w.key
      <4>1. manifests'[id] = w.row
        BY <2>1, <2>2, <3>1
      <4>2. 1 \in 1..Len(pub[d].todo) /\ \A x : ~Before(pub[d].todo, 1, x)
        BY <2>2 DEF Before
      <4> QED BY <1>1, <2>1, <3>1, <4>1, <4>2 DEF Sound, Covered
    <3>2. CASE ~(w.table = "manifests" /\ id = w.key)
      <4>1. manifests'[id] = manifests[id]
        BY <2>1, <2>2, <3>2
      <4> QED BY <1>1, <4>1 DEF Sound, Whole, Table
    <3> QED BY <3>1, <3>2
  <2>5. ASSUME NEW i \in 1..Len(pub'[d].todo), NEW x, Before(pub[d].todo, i + 1, x), x # w
        PROVE  Before(pub'[d].todo, i, x)
    <3>1. PICK j \in 1..i : pub[d].todo[j] = x
      BY <2>5 DEF Before
    <3>2. j # 1
      BY <2>1, <2>5, <3>1
    <3>3. j - 1 \in 1..(i - 1) /\ j - 1 \in 1..Len(pub'[d].todo) /\ (j - 1) + 1 = j
      BY <1>5, <3>2
    <3>4. pub'[d].todo[j - 1] = x
      BY <1>5, <3>1, <3>3
    <3> QED BY <3>3, <3>4 DEF Before
  <2>6. Covered(d)'
    <3> SUFFICES ASSUME NEW i \in 1..Len(pub'[d].todo), pub'[d].todo[i].table = "manifests",
                        NEW o \in pub'[d].todo[i].row.lists
                 PROVE  /\ o \in storage' \/ Before(pub'[d].todo, i, Write("storage", o, NoRow))
                        /\ \/ <<pub'[d].todo[i].key, o>> \in relations'
                           \/ Before(pub'[d].todo, i,
                                     Write("relations", <<pub'[d].todo[i].key, o>>, NoRow))
      BY DEF Covered, Before
    <3>1. i + 1 \in 1..Len(pub[d].todo) /\ pub'[d].todo[i] = pub[d].todo[i + 1]
      BY <1>5
    <3>2. PICK key : key = pub'[d].todo[i].key /\ key = pub[d].todo[i + 1].key
      BY <3>1
    <3>3. /\ o \in storage \/ Before(pub[d].todo, i + 1, Write("storage", o, NoRow))
          /\ \/ <<key, o>> \in relations
             \/ Before(pub[d].todo, i + 1, Write("relations", <<key, o>>, NoRow))
      BY <1>1, <3>1, <3>2 DEF Sound, Covered
    <3>4. o \in storage' \/ Before(pub'[d].todo, i, Write("storage", o, NoRow))
      <4>1. CASE w = Write("storage", o, NoRow)
        BY <2>1, <4>1 DEF Write
      <4>2. CASE w # Write("storage", o, NoRow)
        BY <2>3, <2>5, <3>3, <4>2
      <4> QED BY <4>1, <4>2
    <3>5. <<key, o>> \in relations' \/ Before(pub'[d].todo, i, Write("relations", <<key, o>>, NoRow))
      <4>1. CASE w = Write("relations", <<key, o>>, NoRow)
        BY <2>1, <4>1 DEF Write
      <4>2. CASE w # Write("relations", <<key, o>>, NoRow)
        BY <2>3, <2>5, <3>3, <4>2
      <4> QED BY <4>1, <4>2
    <3> QED BY <3>2, <3>4, <3>5
  <2>7. \A e \in Datasets : Covered(e)'
    BY <1>1, <1>5, <2>3, <2>6, CoveredStays DEF Sound
  <2>8. \A id \in Ids : manifests[id] # NoRow => manifests'[id] # NoRow
    <3> HIDE DEF NoRow
    <3> QED BY <2>1, <2>2 DEF Fits
  <2>9. UploadFollows'
    <3>1. upl'.phase = upl.phase /\ upl'.raced = (upl.phase # "idle")
      BY <1>1, <1>2 DEF Typed, ReadersTyped
    <3>2. copied' => Whole(copy)'
      BY <1>1, <1>2 DEF Sound, UploadFollows, Whole
    <3> QED BY <1>1, <1>2, <2>8, <3>1, <3>2 DEF Sound, UploadFollows
  <2>10. ApplyFollows'
    BY <1>1, <1>2, <2>3, ApplyStays DEF Sound
  <2> QED BY <2>4, <2>7, <2>9, <2>10 DEF Sound
<1> QED BY <1>3, <1>4, <1>5, <1>7, <1>8, <1>9 DEF TransferInv, Typed

-----------------------------------------------------------------------------
(* upload: a put object is among those uploaded, and the tables follow.      *)
LEMMA BeginUploadStep == ASSUME TransferInv, ~clobbered, BeginUpload PROVE TransferInv'
<1>1. Typed /\ Sound
  BY DEF TransferInv
<1>2. /\ upl' = [phase |-> "put", rows |-> storage, uploaded |-> {}, raced |-> FALSE]
      /\ upl.phase = "idle" /\ copied' = FALSE
      /\ UNCHANGED <<manifests, storage, relations, local, pub, clobbered, copy, db, app>>
  BY DEF BeginUpload, IdleUpload, catalog
<1>3. ReadersTyped'
  BY <1>1, <1>2 DEF Typed, TablesTyped, ReadersTyped, Tables, ManifestRows
<1>4. UploadFollows'
  BY <1>1, <1>2 DEF Sound, UploadFollows
<1>5. ApplyFollows'
  BY <1>1, <1>2, ApplyStays DEF Sound
<1> QED BY <1>2, <1>3, <1>4, <1>5, ReaderStep

LEMMA PutStep == ASSUME TransferInv, ~clobbered, NEW o \in Objects, Put(o) PROVE TransferInv'
<1>1. Typed /\ Sound
  BY DEF TransferInv
<1>2. /\ upl' = [upl EXCEPT !.rows = @ \ {o}, !.uploaded = @ \cup {o}]
      /\ upl.phase = "put"
      /\ UNCHANGED <<manifests, storage, relations, local, pub, clobbered, copy, db, app, copied>>
  BY DEF Put, catalog
<1>3. /\ upl'.phase = "put" /\ upl'.raced = upl.raced /\ upl'.rows = upl.rows \ {o}
      /\ upl'.uploaded = upl.uploaded \cup {o}
  BY <1>1, <1>2 DEF Typed, ReadersTyped
<1>4. ReadersTyped'
  BY <1>1, <1>2 DEF Typed, ReadersTyped, Tables, ManifestRows
<1>5. UploadFollows'
  BY <1>1, <1>2, <1>3 DEF Sound, UploadFollows
<1>6. ApplyFollows'
  BY <1>1, <1>2, ApplyStays DEF Sound
<1> QED BY <1>2, <1>4, <1>5, <1>6, ReaderStep

LEMMA CopyManifestsStep == ASSUME TransferInv, ~clobbered, CopyManifests PROVE TransferInv'
<1>1. Typed /\ Sound
  BY DEF TransferInv
<1>2. /\ upl' = [upl EXCEPT !.phase = "storage"]
      /\ copy' = [copy EXCEPT !.manifests =
                      [id \in Ids |-> IF manifests[id] # NoRow THEN manifests[id] ELSE @[id]]]
      /\ upl.phase = "put" /\ upl.rows = {}
      /\ UNCHANGED <<manifests, storage, relations, local, pub, clobbered, db, app, copied>>
  BY DEF CopyManifests, catalog
<1> DEFINE m == [id \in Ids |-> IF manifests[id] # NoRow THEN manifests[id]
                                ELSE copy.manifests[id]]
<1>3. m = manifests /\ m \in [Ids -> ManifestRows]
  <2> USE <1>1 DEF Typed, TablesTyped, Sound, UploadFollows
  <2> HIDE DEF NoRow, ManifestRows
  <2>1. \A id \in Ids : m[id] = manifests[id]
    OBVIOUS
  <2> QED BY <2>1
<1>4. /\ copy'.manifests = manifests /\ copy'.storage = copy.storage
      /\ copy'.relations = copy.relations /\ copy' \in Tables
  BY <1>1, <1>2, <1>3 DEF Typed, ReadersTyped, Tables
<1>5. /\ upl'.phase = "storage" /\ upl'.raced = upl.raced /\ upl'.rows = upl.rows
      /\ upl'.uploaded = upl.uploaded
  BY <1>1, <1>2 DEF Typed, ReadersTyped
<1>6. ReadersTyped'
  BY <1>1, <1>2, <1>4 DEF Typed, ReadersTyped, Tables, ManifestRows
<1>7. UploadFollows'
  BY <1>1, <1>2, <1>4, <1>5 DEF Sound, UploadFollows
<1>8. ApplyFollows'
  BY <1>1, <1>2, ApplyStays DEF Sound
<1> QED BY <1>2, <1>6, <1>7, <1>8, ReaderStep

LEMMA CopyStorageStep == ASSUME TransferInv, ~clobbered, CopyStorage PROVE TransferInv'
<1>1. Typed /\ Sound
  BY DEF TransferInv
<1>2. /\ upl' = [upl EXCEPT !.phase = "relations"]
      /\ copy' = [copy EXCEPT !.storage = @ \cup upl.uploaded]
      /\ upl.phase = "storage"
      /\ UNCHANGED <<manifests, storage, relations, local, pub, clobbered, db, app, copied>>
  BY DEF CopyStorage, catalog
<1>3. /\ copy'.manifests = copy.manifests /\ copy'.storage = copy.storage \cup upl.uploaded
      /\ copy'.relations = copy.relations /\ copy' \in Tables
  BY <1>1, <1>2 DEF Typed, ReadersTyped, Tables
<1>4. /\ upl'.phase = "relations" /\ upl'.raced = upl.raced /\ upl'.rows = upl.rows
      /\ upl'.uploaded = upl.uploaded
  BY <1>1, <1>2 DEF Typed, ReadersTyped
<1>5. ReadersTyped'
  BY <1>1, <1>2, <1>3 DEF Typed, ReadersTyped, Tables, ManifestRows
<1>6. UploadFollows'
  BY <1>1, <1>2, <1>3, <1>4 DEF Sound, UploadFollows
<1>7. ApplyFollows'
  BY <1>1, <1>2, ApplyStays DEF Sound
<1> QED BY <1>2, <1>5, <1>6, <1>7, ReaderStep

LEMMA IdleUploadTyped ==
  IdleUpload \in [phase : {"idle", "put", "storage", "relations"}, rows : SUBSET Objects,
                  uploaded : SUBSET Objects, raced : BOOLEAN] /\ IdleUpload.phase = "idle"
  BY DEF IdleUpload

(* An upload nobody wrote beside ends with a destination that has the rows of *)
(* all its manifests.                                                       *)
LEMMA CopyRelationsStep == ASSUME TransferInv, ~clobbered, CopyRelations PROVE TransferInv'
<1>1. Typed /\ Sound
  BY DEF TransferInv
<1>2. /\ upl' = IdleUpload /\ copied' = ~upl.raced
      /\ copy' = [copy EXCEPT !.relations = @ \cup relations]
      /\ upl.phase = "relations"
      /\ UNCHANGED <<manifests, storage, relations, local, pub, clobbered, db, app>>
  BY DEF CopyRelations, catalog
<1>3. /\ copy'.manifests = copy.manifests /\ copy'.storage = copy.storage
      /\ copy'.relations = copy.relations \cup relations /\ copy' \in Tables
  BY <1>1, <1>2 DEF Typed, ReadersTyped, Tables, TablesTyped
<1>4. ReadersTyped'
  BY <1>1, <1>2, <1>3, IdleUploadTyped DEF Typed, ReadersTyped, Tables, ManifestRows
<1>5. ASSUME ~upl.raced PROVE Whole(copy)'
  <2>1. copy.manifests = manifests /\ storage \subseteq copy.storage
    BY <1>1, <1>2, <1>5 DEF Sound, UploadFollows
  <2> QED BY <1>1, <1>3, <2>1 DEF Sound, Whole, Table
<1>6. UploadFollows'
  BY <1>1, <1>2, <1>3, <1>5, IdleUploadTyped DEF Sound, UploadFollows
<1>7. ApplyFollows'
  BY <1>1, <1>2, ApplyStays DEF Sound
<1> QED BY <1>2, <1>4, <1>6, <1>7, ReaderStep

LEMMA UploadDiesStep == ASSUME TransferInv, ~clobbered, UploadDies PROVE TransferInv'
<1>1. Typed /\ Sound
  BY DEF TransferInv
<1>2. /\ upl' = IdleUpload /\ upl.phase # "idle"
      /\ UNCHANGED <<manifests, storage, relations, local, pub, clobbered, db, app, copied>>
  BY DEF UploadDies, catalog
<1>3. /\ copy' \in Tables
      /\ \A id \in Ids : copy'.manifests[id] # NoRow => manifests[id] # NoRow
  <2>1. CASE \E ids \in SUBSET Rows(manifests) :
                copy' = [copy EXCEPT !.manifests =
                             [id \in Ids |-> IF id \in ids THEN manifests[id] ELSE @[id]]]
    <3>1. PICK ids \in SUBSET Rows(manifests) :
            copy' = [copy EXCEPT !.manifests =
                         [id \in Ids |-> IF id \in ids THEN manifests[id]
                                         ELSE copy.manifests[id]]]
      BY <2>1
    <3> DEFINE m == [id \in Ids |-> IF id \in ids THEN manifests[id] ELSE copy.manifests[id]]
    <3>2. m \in [Ids -> ManifestRows] /\ \A id \in Ids : m[id] # NoRow => manifests[id] # NoRow
      <4> HIDE DEF NoRow, ManifestRows
      <4> QED BY <1>1 DEF Typed, TablesTyped, ReadersTyped, Tables, Sound, UploadFollows, Rows
    <3> HIDE DEF m
    <3>3. copy' = [copy EXCEPT !.manifests = m]
      BY <3>1 DEF m
    <3> QED BY <1>1, <3>2, <3>3 DEF Typed, ReadersTyped, Tables
  <2>2. CASE \E rows \in SUBSET upl.uploaded : copy' = [copy EXCEPT !.storage = @ \cup rows]
    BY <1>1, <2>2 DEF Typed, ReadersTyped, Tables, Sound, UploadFollows
  <2>3. CASE \E rows \in SUBSET relations : copy' = [copy EXCEPT !.relations = @ \cup rows]
    BY <1>1, <2>3 DEF Typed, TablesTyped, ReadersTyped, Tables, Sound, UploadFollows
  <2>4. CASE copy' = copy
    BY <1>1, <2>4 DEF Typed, ReadersTyped, Sound, UploadFollows
  <2> QED BY <2>1, <2>2, <2>3, <2>4 DEF UploadDies
<1>4. ReadersTyped'
  <2>1. db' \in Tables /\ app' \in [phase : {"idle", "storage", "relations", "check", "commit"},
                                    ops : Tables]
    BY <1>1, <1>2 DEF Typed, ReadersTyped
  <2> QED BY <1>2, <1>3, <2>1, IdleUploadTyped DEF ReadersTyped, Tables, ManifestRows
<1>5. UploadFollows'
  BY <1>1, <1>2, <1>3, IdleUploadTyped DEF Sound, UploadFollows
<1>6. ApplyFollows'
  BY <1>1, <1>2, ApplyStays DEF Sound
<1> QED BY <1>2, <1>4, <1>5, <1>6, ReaderStep

-----------------------------------------------------------------------------
(* apply-db: what is read after the manifests covers them.                   *)
LEMMA BeginApplyStep == ASSUME TransferInv, ~clobbered, BeginApply PROVE TransferInv'
<1>1. Typed /\ Sound
  BY DEF TransferInv
<1>2. /\ app' = [phase |-> "storage", ops |-> [EmptyTables EXCEPT !.manifests = manifests]]
      /\ UNCHANGED <<manifests, storage, relations, local, pub, clobbered, copy, db, upl, copied>>
  BY DEF BeginApply, catalog
<1>3. app'.phase = "storage" /\ app'.ops.manifests = manifests /\ app'.ops \in Tables
  BY <1>1, <1>2 DEF EmptyTables, Tables, Typed, TablesTyped
<1>4. ReadersTyped'
  BY <1>1, <1>2, <1>3 DEF Typed, ReadersTyped, Tables, ManifestRows
<1>5. UploadFollows'
  BY <1>1, <1>2, UploadStays DEF Sound
<1>6. ApplyFollows'
  BY <1>1, <1>2, <1>3 DEF Sound, ApplyFollows, Whole, Table
<1> QED BY <1>2, <1>4, <1>5, <1>6, ReaderStep

LEMMA ReadStorageStep == ASSUME TransferInv, ~clobbered, ReadStorage PROVE TransferInv'
<1>1. Typed /\ Sound
  BY DEF TransferInv
<1>2. /\ app' = [app EXCEPT !.phase = "relations", !.ops.storage = storage]
      /\ app.phase = "storage"
      /\ UNCHANGED <<manifests, storage, relations, local, pub, clobbered, copy, db, upl, copied>>
  BY DEF ReadStorage, catalog
<1>3. /\ app'.phase = "relations" /\ app'.ops.storage = storage /\ app'.ops \in Tables
      /\ app'.ops.manifests = app.ops.manifests
  BY <1>1, <1>2 DEF Tables, Typed, TablesTyped, ReadersTyped
<1>4. ReadersTyped'
  BY <1>1, <1>2, <1>3 DEF Typed, ReadersTyped, Tables, ManifestRows
<1>5. UploadFollows'
  BY <1>1, <1>2, UploadStays DEF Sound
<1>6. ApplyFollows'
  BY <1>1, <1>2, <1>3 DEF Sound, ApplyFollows, Whole
<1> QED BY <1>2, <1>4, <1>5, <1>6, ReaderStep

LEMMA ReadRelationsStep == ASSUME TransferInv, ~clobbered, ReadRelations PROVE TransferInv'
<1>1. Typed /\ Sound
  BY DEF TransferInv
<1>2. /\ app' = [app EXCEPT !.phase = "check", !.ops.relations = relations]
      /\ app.phase = "relations"
      /\ UNCHANGED <<manifests, storage, relations, local, pub, clobbered, copy, db, upl, copied>>
  BY DEF ReadRelations, catalog
<1>3. /\ app'.phase = "check" /\ app'.ops.relations = relations /\ app'.ops \in Tables
      /\ app'.ops.manifests = app.ops.manifests /\ app'.ops.storage = app.ops.storage
  BY <1>1, <1>2 DEF Tables, Typed, TablesTyped, ReadersTyped
<1>4. ReadersTyped'
  BY <1>1, <1>2, <1>3 DEF Typed, ReadersTyped, Tables, ManifestRows
<1>5. UploadFollows'
  BY <1>1, <1>2, UploadStays DEF Sound
<1>6. ApplyFollows'
  BY <1>1, <1>2, <1>3 DEF Sound, ApplyFollows, Whole
<1> QED BY <1>2, <1>4, <1>5, <1>6, ReaderStep

LEMMA IdleApplyTyped ==
  IdleApply \in [phase : {"idle", "storage", "relations", "check", "commit"}, ops : Tables]
      /\ IdleApply.phase = "idle"
<1>1. EmptyTables \in Tables
  BY NoRowTyped DEF EmptyTables, Tables, NoManifests
<1> QED BY <1>1 DEF IdleApply

LEMMA CheckStep == ASSUME TransferInv, ~clobbered, Check PROVE TransferInv'
<1>1. Typed /\ Sound
  BY DEF TransferInv
<1>2. /\ app' = [app EXCEPT !.phase = "commit"] \/ app' = IdleApply
      /\ app.phase = "check"
      /\ UNCHANGED <<manifests, storage, relations, local, pub, clobbered, copy, db, upl, copied>>
  BY DEF Check, catalog
<1>3. /\ app' \in [phase : {"idle", "storage", "relations", "check", "commit"}, ops : Tables]
      /\ app'.phase = "idle" \/ (app'.phase = "commit" /\ app'.ops = app.ops)
  BY <1>1, <1>2, IdleApplyTyped DEF Typed, ReadersTyped
<1>4. ReadersTyped'
  BY <1>1, <1>2, <1>3 DEF Typed, ReadersTyped, Tables, ManifestRows
<1>5. UploadFollows'
  BY <1>1, <1>2, UploadStays DEF Sound
<1>6. ApplyFollows'
  BY <1>1, <1>2, <1>3 DEF Sound, ApplyFollows, Whole
<1> QED BY <1>2, <1>4, <1>5, <1>6, ReaderStep

(* The transaction adds the rows of every manifest it replaces. *)
LEMMA CommitStep == ASSUME TransferInv, ~clobbered, Commit PROVE TransferInv'
<1>1. Typed /\ Sound
  BY DEF TransferInv
<1>2. /\ db' = Applied(app.ops) /\ app' = IdleApply /\ app.phase = "commit"
      /\ UNCHANGED <<manifests, storage, relations, local, pub, clobbered, copy, upl, copied>>
  BY DEF Commit, catalog
<1> DEFINE m == [id \in Ids |-> IF app.ops.manifests[id] = NoRow THEN db.manifests[id]
                                ELSE app.ops.manifests[id]]
<1>3. /\ app.ops \in Tables /\ db \in Tables
      /\ app.ops.manifests \in [Ids -> ManifestRows] /\ db.manifests \in [Ids -> ManifestRows]
  BY <1>1 DEF Typed, ReadersTyped, Tables
<1>4. /\ m \in [Ids -> ManifestRows]
      /\ \A id \in Ids : m[id] \in {db.manifests[id], app.ops.manifests[id]}
  <2> HIDE DEF NoRow, ManifestRows
  <2> QED BY <1>3
<1> HIDE DEF m
<1>5. /\ db'.manifests = m /\ db'.storage = db.storage \cup app.ops.storage
      /\ db'.relations = db.relations \cup app.ops.relations
      /\ db' = [manifests |-> m, storage |-> db.storage \cup app.ops.storage,
                relations |-> db.relations \cup app.ops.relations]
  BY <1>2 DEF Applied, m
<1>6. db' \in Tables
  BY <1>3, <1>4, <1>5 DEF Tables
<1>7. Whole(db)'
  <2> SUFFICES ASSUME NEW id \in Ids, NEW o \in db'.manifests[id].lists
               PROVE  o \in db'.storage /\ <<id, o>> \in db'.relations
    BY DEF Whole
  <2>1. CASE db'.manifests[id] = db.manifests[id]
    BY <1>1, <1>5, <2>1 DEF Sound, ApplyFollows, Whole
  <2>2. CASE db'.manifests[id] = app.ops.manifests[id]
    BY <1>1, <1>2, <1>5, <2>2 DEF Sound, ApplyFollows
  <2> QED BY <1>4, <1>5, <2>1, <2>2
<1>8. ReadersTyped'
  <2>1. upl' \in [phase : {"idle", "put", "storage", "relations"}, rows : SUBSET Objects,
                  uploaded : SUBSET Objects, raced : BOOLEAN] /\ copy' \in Tables
    BY <1>1, <1>2 DEF Typed, ReadersTyped
  <2> QED BY <1>2, <1>6, <2>1, IdleApplyTyped DEF ReadersTyped, Tables, ManifestRows
<1>9. UploadFollows'
  BY <1>1, <1>2, UploadStays DEF Sound
<1>10. ApplyFollows'
  BY <1>2, <1>7, IdleApplyTyped DEF ApplyFollows
<1> QED BY <1>2, <1>8, <1>9, <1>10, ReaderStep

LEMMA AbortStep == ASSUME TransferInv, ~clobbered, Abort PROVE TransferInv'
<1>1. Typed /\ Sound
  BY DEF TransferInv
<1>2. /\ app' = IdleApply
      /\ UNCHANGED <<manifests, storage, relations, local, pub, clobbered, copy, db, upl, copied>>
  BY DEF Abort, catalog
<1>3. ReadersTyped'
  BY <1>1, <1>2, IdleApplyTyped DEF Typed, ReadersTyped, Tables, ManifestRows
<1>4. UploadFollows'
  BY <1>1, <1>2, UploadStays DEF Sound
<1>5. ApplyFollows'
  BY <1>1, <1>2, IdleApplyTyped DEF Sound, ApplyFollows, Whole
<1> QED BY <1>2, <1>3, <1>4, <1>5, ReaderStep

-----------------------------------------------------------------------------
LEMMA UnchangedTransfer ==
  ASSUME TransferInv,
         UNCHANGED <<manifests, storage, relations, local, copy, db, pub, upl, app,
                     clobbered, copied>>
  PROVE  TransferInv'
<1>1. Typed' /\ clobbered' \in BOOLEAN
  BY DEF TransferInv, Typed, TablesTyped, ReadersTyped, CommandTyped, Fits, HeldFits,
         Tables, ManifestRows
<1>2. Sound => Sound'
  BY DEF Sound, Whole, Table, Covered, Before, UploadFollows, ApplyFollows
<1> QED BY <1>1, <1>2 DEF TransferInv

LEMMA StepTransfer == TransferInv /\ [Next]_vars => TransferInv'
<1> SUFFICES ASSUME TransferInv, [Next]_vars PROVE TransferInv'
  OBVIOUS
<1>1. CASE UNCHANGED vars
  BY <1>1, UnchangedTransfer DEF vars, catalog
<1>2. CASE Next
  <2>1. ~clobbered
    BY <1>2 DEF Next
  <2>2. ASSUME NEW d \in Datasets, Publish(d) PROVE TransferInv'
    BY <2>1, <2>2, BeginStep, BuildStep, ReadTableStep, WriteTableStep, DiesStep DEF Publish
  <2>3. CASE Approve
    BY <2>3, UnchangedTransfer DEF Approve
  <2>4. CASE Upload
    BY <2>1, <2>4, BeginUploadStep, PutStep, CopyManifestsStep, CopyStorageStep,
       CopyRelationsStep, UploadDiesStep DEF Upload
  <2>5. CASE Apply
    BY <2>1, <2>5, BeginApplyStep, ReadStorageStep, ReadRelationsStep, CheckStep, CommitStep,
       AbortStep DEF Apply, ApplyStep
  <2> QED BY <1>2, <2>2, <2>3, <2>4, <2>5 DEF Next
<1> QED BY <1>1, <1>2

LEMMA AlwaysTransfer == Spec => []TransferInv
  BY InitTransfer, StepTransfer, PTL DEF Spec

LEMMA WholeIsComplete ==
  ASSUME NEW tables, Whole(tables) PROVE Complete(tables)
  BY DEF Whole, Complete

(* The rows of the tables are of objects that exist, and bytes are stored      *)
(* before the row of them (LocalObjectStore.put before upsert_many).          *)
THEOREM AlwaysTyped == Spec => []TypeOK
<1>1. TransferInv => TypeOK
  BY DEF TransferInv, Typed, TablesTyped, TypeOK
<1> QED BY <1>1, AlwaysTransfer, PTL

(* A manifest that readers take has the rows of what it was hashed over,       *)
(* whatever dies between two of the writes, until a lost update.             *)
THEOREM AlwaysCatalogIsComplete == Spec => []CatalogIsComplete
<1>1. TransferInv => CatalogIsComplete
  BY WholeIsComplete DEF TransferInv, Sound, CatalogIsComplete
<1> QED BY <1>1, AlwaysTransfer, PTL

(* After an upload that no publishing command wrote beside, the destination    *)
(* has all the rows of the manifests it offers, although it copies the        *)
(* manifests first and earlier uploads left parts of the catalog there.       *)
THEOREM AlwaysCopyIsComplete == Spec => []CopyIsComplete
<1>1. TransferInv => CopyIsComplete
  BY WholeIsComplete DEF TransferInv, Sound, UploadFollows, CopyIsComplete
<1> QED BY <1>1, AlwaysTransfer, PTL

(* A manifest that is AVAILABLE in the database has all its rows there,        *)
(* although commands write the tables while apply-db reads them one after     *)
(* the other (apply_catalog_to_postgres): it reads the manifests first, and a  *)
(* command writes its manifest after the rows of it.                         *)
THEOREM AlwaysAppliedIsComplete == Spec => []AppliedIsComplete
<1>1. TransferInv => AppliedIsComplete
  BY WholeIsComplete DEF TransferInv, Sound, ApplyFollows, AppliedIsComplete
<1> QED BY <1>1, AlwaysTransfer, PTL

-----------------------------------------------------------------------------
(* validate_catalog.  While no attempt takes over the manifest of a failed     *)
(* one, a manifest that is not being built relates to what it lists and to    *)
(* nothing else, and is hashed over it.                                     *)
BuildingRow == [status |-> "BUILDING", hash |-> BuildingHash, lists |-> {}]

OnePerPeriod(S) == \A o, q \in S : o.period = q.period => o = q

Agrees(row, listed) ==
    /\ row.status = "none" => row = NoRow /\ listed = {}
    /\ row.status \in {"AVAILABLE", "SUPERSEDED", "QUARANTINED"} =>
          listed = row.lists /\ row.hash = HashOf(row.lists) /\ OnePerPeriod(row.lists)

(* The last row of the manifest a command writes. *)
Final(w, id) ==
    /\ w = Write("manifests", id, w.row)
    /\ w.row.status \in {"AVAILABLE", "QUARANTINED"}
    /\ w.row.hash = HashOf(w.row.lists) /\ OnePerPeriod(w.row.lists)

RowOf(w, id, S) ==
    \E o \in S : w = Write("storage", o, NoRow) \/ w = Write("relations", <<id, o>>, NoRow)

Retires(m, w, d, id) ==
    \E q \in {d} \X Revisions : /\ q # id /\ m[q].status = "AVAILABLE"
                                /\ w = Write("manifests", q, [m[q] EXCEPT !.status = "SUPERSEDED"])

(* What a command has left to write: rows of its objects, its manifest at k,   *)
(* unless that is written already, and the manifest it retires, if any.      *)
Remaining(m, listed, d, id, todo, k) ==
    /\ k # 0 => /\ m[id].status = "BUILDING"
                /\ Final(todo[k], id) /\ listed \subseteq todo[k].row.lists
                /\ \A i \in 1..(k - 1) : RowOf(todo[i], id, todo[k].row.lists)
    /\ \A i \in (k + 1)..Len(todo) : i = k + 1 /\ Retires(m, todo[i], d, id)

CommandAt(m, listed, d, id, p) ==
    /\ p.phase = "building" =>
          \/ p.todo = << Write("manifests", id, BuildingRow) >> /\ m[id].status = "none"
          \/ p.todo = <<>> /\ m[id].status = "BUILDING" /\ listed = {}
    /\ p.phase = "writing" => \E k \in 0..Len(p.todo) : Remaining(m, listed, d, id, p.todo, k)

CommandValid(d) ==
    \A id \in Ids : id = pub[d].id => CommandAt(manifests, Listed(id), d, id, pub[d])

Valid ==
    /\ \A id \in Ids : Agrees(manifests[id], Listed(id))
    /\ \A d \in Datasets : CommandValid(d)

ValidInv == TransferInv /\ (clobbered \/ retried \/ Valid)

LEMMA InitValid == Init => ValidInv
<1> SUFFICES ASSUME Init PROVE ValidInv
  OBVIOUS
<1>1. \A id \in Ids : Agrees(manifests[id], Listed(id))
  BY DEF Init, NoManifests, NoRow, Agrees, Listed
<1>2. \A d \in Datasets : CommandValid(d)
  BY DEF Init, Idle, CommandValid, CommandAt
<1> QED BY <1>1, <1>2, InitTransfer DEF ValidInv, Valid

(* A command that does not move stays valid while the manifests of its dataset *)
(* do.                                                                      *)
LEMMA CommandElsewhere ==
  ASSUME NEW e \in Datasets, pub'[e] = pub[e], CommandTyped(e), CommandValid(e),
         \A id \in {e} \X Revisions : manifests'[id] = manifests[id] /\ Listed(id)' = Listed(id)
  PROVE  CommandValid(e)'
<1>1. CASE pub[e].phase = "idle"
  BY <1>1 DEF CommandValid, CommandAt
<1>2. CASE pub[e].phase # "idle"
  <2> SUFFICES ASSUME NEW id \in Ids, id = pub[e].id
               PROVE  CommandAt(manifests', Listed(id)', e, id, pub[e])
    BY DEF CommandValid
  <2>1. id \in {e} \X Revisions
    BY <1>2 DEF CommandTyped
  <2>2. CommandAt(manifests, Listed(id), e, id, pub[e])
    BY DEF CommandValid
  <2>3. \A w : Retires(manifests, w, e, id) => Retires(manifests', w, e, id)
    BY DEF Retires
  <2> QED BY <2>1, <2>2, <2>3 DEF CommandAt, Remaining
<1> QED BY <1>1, <1>2

(* Steps of a command that write no table. *)
LEMMA OwnValid ==
  ASSUME TransferInv, ~clobbered, Valid, NEW d \in Datasets,
         \A e \in Datasets \ {d} : pub'[e] = pub[e], CommandValid(d)',
         UNCHANGED <<manifests, relations>>
  PROVE  Valid'
<1>1. \A id : Listed(id)' = Listed(id)
  BY DEF Listed
<1>2. \A e \in Datasets \ {d} : CommandTyped(e) /\ CommandValid(e)
  BY DEF TransferInv, Typed, Valid
<1>3. \A e \in Datasets : CommandValid(e)'
  BY <1>1, <1>2, CommandElsewhere
<1> QED BY <1>1, <1>3 DEF Valid

LEMMA OthersValid ==
  ASSUME Valid, UNCHANGED <<manifests, relations, pub>>
  PROVE  Valid'
<1>1. \A id : Listed(id)' = Listed(id)
  BY DEF Listed
<1> QED BY <1>1 DEF Valid, CommandValid

LEMMA BeginValid ==
  ASSUME TransferInv, ~clobbered, Valid, NEW d \in Datasets, Begin(d), ~retried'
  PROVE  Valid'
<1> DEFINE id == <<d, Latest(d) + 1>>
<1>1. PICK o \in Objects :
        pub' = [pub EXCEPT ![d] =
                   [phase |-> "building", id |-> id, new |-> o,
                    todo |-> << Write("manifests", id, BuildingRow) >>, held |-> NoTable]]
  BY DEF Begin, BuildingRow
<1>2. manifests[id] = NoRow /\ UNCHANGED <<manifests, relations>>
  BY DEF Begin
<1>3. manifests[id].status = "none"
  BY <1>2 DEF NoRow
<1>4. pub \in [Datasets -> Commands]
  BY DEF TransferInv, Typed
<1> HIDE DEF id
<1>5. /\ pub'[d].phase = "building" /\ pub'[d].id = id
      /\ pub'[d].todo = << Write("manifests", id, BuildingRow) >>
      /\ \A e \in Datasets \ {d} : pub'[e] = pub[e]
  BY <1>1, <1>4
<1>6. CommandValid(d)'
  BY <1>2, <1>3, <1>5 DEF CommandValid, CommandAt
<1> QED BY <1>2, <1>5, <1>6, OwnValid

LEMMA DiesValid ==
  ASSUME TransferInv, ~clobbered, Valid, NEW d \in Datasets, Dies(d) PROVE Valid'
<1>1. /\ pub' = [pub EXCEPT ![d] = Idle] /\ UNCHANGED <<manifests, relations>>
      /\ pub \in [Datasets -> Commands]
  BY DEF Dies, catalog, TransferInv, Typed
<1>2. CommandValid(d)'
  BY <1>1 DEF CommandValid, CommandAt, Idle
<1> QED BY <1>1, <1>2, OwnValid

LEMMA ReadTableValid ==
  ASSUME TransferInv, ~clobbered, Valid, NEW d \in Datasets, ReadTable(d) PROVE Valid'
<1>1. PICK h : /\ pub' = [pub EXCEPT ![d].held = h] /\ UNCHANGED <<manifests, relations>>
  BY DEF ReadTable, catalog
<1>2. pub \in [Datasets -> Commands] /\ pub[d] \in Commands
  BY DEF TransferInv, Typed
<1>3. /\ pub'[d].phase = pub[d].phase /\ pub'[d].id = pub[d].id /\ pub'[d].todo = pub[d].todo
      /\ \A e \in Datasets \ {d} : pub'[e] = pub[e]
  BY <1>1, <1>2 DEF Commands
<1>4. \A id : Listed(id)' = Listed(id)
  BY <1>1 DEF Listed
<1>5. CommandValid(d)'
  BY <1>1, <1>3, <1>4 DEF CommandValid, CommandAt, Valid
<1> QED BY <1>1, <1>3, <1>5, OwnValid

(* No two of the objects a command keeps, nor one of them and its own, are of  *)
(* one period.                                                              *)
LEMMA RetainedPeriods ==
  ASSUME Valid, NEW d \in Datasets, NEW new
  PROVE  /\ \A o \in Retained(d, new) : o.period # new.period
         /\ OnePerPeriod(Retained(d, new))
<1>1. CASE Latest(d) = 0
  BY <1>1 DEF Retained, OnePerPeriod
<1>2. CASE Latest(d) # 0
  <2>1. PICK id \in Ids : id = <<d, Latest(d)>> /\ manifests[id].status = "AVAILABLE"
    BY <1>2, LatestIsAvailable DEF Ids
  <2>2. OnePerPeriod(Listed(id))
    BY <2>1 DEF Valid, Agrees
  <2>3. Retained(d, new) = {o \in Listed(id) : o.period # new.period}
    BY <1>2, <2>1 DEF Retained
  <2> QED BY <2>2, <2>3 DEF OnePerPeriod
<1> QED BY <1>1, <1>2

LEMMA BuildValid ==
  ASSUME TransferInv, ~clobbered, Valid, NEW d \in Datasets, Build(d) PROVE Valid'
<1>1. Typed
  BY DEF TransferInv
<1>2. PICK stored \in BOOLEAN, id \in {d} \X Revisions, new \in Objects,
           S \in SUBSET Objects, row \in ManifestRows, tail \in Seq(Writes),
           todo \in Seq(Writes) : BuildsAs(d, stored, id, new, S, row, tail, todo)
  BY <1>1, BuildIs
<1>3. /\ id \in Ids /\ IsFiniteSet(S) /\ id = pub[d].id /\ Len(tail) \in Nat
      /\ pub' = [pub EXCEPT ![d].phase = "writing", ![d].todo = todo]
      /\ tail = IF stored THEN Retired(d) ELSE <<>>
  BY <1>2, LenProperties DEF BuildsAs, Ids
<1>4. PICK k \in Nat \ {0} : Planned(todo, k, id, S, row, tail)
  <2>1. todo = RowsOf(id, S) \o << Write("manifests", id, row) >> \o tail
    BY <1>2 DEF BuildsAs
  <2> QED BY <1>3, <2>1, PlanOf
<1>5. UNCHANGED <<manifests, relations>> /\ pub[d].phase = "building" /\ pub[d].todo = <<>>
  BY DEF Build
<1>6. manifests[id].status = "BUILDING" /\ Listed(id) = {}
  <2>1. CommandAt(manifests, Listed(id), d, id, pub[d])
    BY <1>3 DEF Valid, CommandValid
  <2>2. << Write("manifests", id, BuildingRow) >> # <<>>
    OBVIOUS
  <2> QED BY <1>5, <2>1, <2>2 DEF CommandAt
<1>7. Final(todo[k], id) /\ todo[k].row.lists = S
  <2>1. todo[k] = Write("manifests", id, row)
    BY <1>4 DEF Planned
  <2>2. /\ row.lists = S /\ row.hash = HashOf(S) /\ row.status \in {"AVAILABLE", "QUARANTINED"}
        /\ S = (IF stored THEN Retained(d, new) \cup {new} ELSE Retained(d, new))
    BY <1>2 DEF BuildsAs
  <2>3. OnePerPeriod(S)
    BY <2>2, RetainedPeriods DEF OnePerPeriod
  <2> QED BY <2>1, <2>2, <2>3 DEF Final, Write
<1>8. \A i \in 1..(k - 1) : RowOf(todo[i], id, S)
  BY <1>4 DEF Planned, RowOf
<1>9. ASSUME NEW i \in (k + 1)..Len(todo) PROVE i = k + 1 /\ Retires(manifests, todo[i], d, id)
  <2>1. Len(todo) = k + Len(tail) /\ \A j \in 1..Len(tail) : todo[k + j] = tail[j]
    BY <1>4 DEF Planned
  <2>2. Len(tail) # 0
    BY <1>3, <2>1
  <2>3. tail # <<>>
    BY <2>2, EmptySeq
  <2>4. PICK r \in Revisions :
           /\ stored /\ r = Latest(d) /\ manifests[<<d, r>>].status = "AVAILABLE"
           /\ tail = << Write("manifests", <<d, r>>, RetiredRow(<<d, r>>)) >>
    BY <1>1, <1>3, <2>3, TailIs
  <2>5. Len(tail) = 1 /\ tail[1] = Write("manifests", <<d, r>>, RetiredRow(<<d, r>>))
    BY <2>4
  <2>6. i = k + 1
    BY <2>1, <2>5
  <2>7. todo[i] = tail[1]
    BY <2>1, <2>5, <2>6
  <2>8. <<d, r>> # id
    BY <1>6, <2>4
  <2> QED BY <2>4, <2>5, <2>6, <2>7, <2>8 DEF Retires, RetiredRow
<1>10. Remaining(manifests, Listed(id), d, id, todo, k)
  BY <1>6, <1>7, <1>8, <1>9 DEF Remaining
<1>11. k \in 0..Len(todo)
  BY <1>3, <1>4 DEF Planned
<1>12. /\ pub'[d].phase = "writing" /\ pub'[d].todo = todo /\ pub'[d].id = id
       /\ \A e \in Datasets \ {d} : pub'[e] = pub[e]
  <2>1. pub \in [Datasets -> Commands] /\ pub[d] \in Commands
    BY <1>1 DEF Typed
  <2> QED BY <1>3, <2>1 DEF Commands
<1>13. \A i : Listed(i)' = Listed(i)
  BY <1>5 DEF Listed
<1>14. CommandValid(d)'
  BY <1>5, <1>10, <1>11, <1>12, <1>13 DEF CommandValid, CommandAt
<1> QED BY <1>5, <1>12, <1>14, OwnValid

-----------------------------------------------------------------------------
(* A write that changes no row of another dataset leaves the rest valid.       *)
LEMMA WriteValid ==
  ASSUME TransferInv, ~clobbered, Valid, NEW d \in Datasets, CommandValid(d)',
         \A e \in Datasets \ {d} : pub'[e] = pub[e],
         NEW q \in {d} \X Revisions, Agrees(manifests[q], Listed(q))',
         \A id \in Ids \ {q} : manifests'[id] = manifests[id] /\ Listed(id)' = Listed(id)
  PROVE  Valid'
<1>1. \A id \in Ids : Agrees(manifests[id], Listed(id))'
  BY DEF Valid
<1>2. ASSUME NEW e \in Datasets \ {d} PROVE CommandValid(e)'
  <2>1. CommandTyped(e) /\ CommandValid(e)
    BY DEF TransferInv, Typed, Valid
  <2>2. \A id \in {e} \X Revisions : id \in Ids \ {q}
    BY DEF Ids
  <2> QED BY <2>1, <2>2, CommandElsewhere
<1> QED BY <1>1, <1>2 DEF Valid

LEMMA WriteTableValid ==
  ASSUME TransferInv, ~clobbered, Valid, NEW d \in Datasets, WriteTable(d), ~clobbered'
  PROVE  Valid'
<1>1. Typed /\ Covered(d)
  BY DEF TransferInv, Sound
<1>2. PICK w \in Writes :
        /\ w = pub[d].todo[1] /\ Fits(d, w) /\ pub[d].todo # <<>>
        /\ manifests' = IF w.table = "manifests" THEN [manifests EXCEPT ![w.key] = w.row]
                        ELSE manifests
        /\ relations' = IF w.table = "relations" THEN relations \cup {w.key} ELSE relations
  BY <1>1, WriteAdds
<1>3. /\ \A e \in Datasets \ {d} : pub'[e] = pub[e]
      /\ Len(pub'[d].todo) \in Nat
      /\ \/ pub'[d] = Idle /\ Idle.phase = "idle"
         \/ /\ pub'[d].phase = pub[d].phase /\ pub'[d].id = pub[d].id
            /\ pub'[d].phase = "writing" => pub'[d].todo # <<>>
      /\ \A i \in 1..Len(pub'[d].todo) :
            i + 1 \in 1..Len(pub[d].todo) /\ pub'[d].todo[i] = pub[d].todo[i + 1]
  BY <1>1, RestIs
<1>4. /\ pub[d].todo \in Seq(Writes) /\ Len(pub[d].todo) \in Nat \ {0}
      /\ pub'[d].todo \in Seq(Writes) /\ manifests \in [Ids -> ManifestRows]
      /\ pub[d].phase \in {"idle", "building", "writing"}
  <2>1. pub[d] \in Commands /\ pub'[d] \in Commands /\ manifests \in [Ids -> ManifestRows]
    BY <1>1, RestIs DEF Typed, TablesTyped
  <2> QED BY <1>2, <2>1, EmptySeq DEF Commands
<1>5. PICK id \in {d} \X Revisions : id = pub[d].id /\ pub[d].phase # "idle"
  BY <1>1, WriteIs DEF Typed, CommandTyped
<1>6. id \in Ids /\ CommandAt(manifests, Listed(id), d, id, pub[d])
      /\ Agrees(manifests[id], Listed(id))
  BY <1>5 DEF Ids, Valid, CommandValid
<1>7. w.table # "relations" => \A i : Listed(i)' = Listed(i)
  BY <1>2 DEF Listed
<1>8. CASE pub[d].phase = "building"
  <2>1. /\ pub[d].todo = << Write("manifests", id, BuildingRow) >>
        /\ manifests[id].status = "none"
    BY <1>2, <1>6, <1>8 DEF CommandAt
  <2>2. w = Write("manifests", id, BuildingRow) /\ Len(pub[d].todo) = 1
    BY <1>2, <2>1
  <2>3. w.table = "manifests" /\ w.key = id /\ w.row = BuildingRow
    BY <2>2 DEF Write
  <2>4. manifests'[id] = BuildingRow /\ \A i \in Ids \ {id} : manifests'[i] = manifests[i]
    BY <1>2, <1>4, <1>6, <2>3
  <2>5. \A i : Listed(i)' = Listed(i)
    BY <1>7, <2>3
  <2>6. Listed(id) = {}
    BY <1>6, <2>1 DEF Agrees
  <2>7. pub'[d].todo = <<>>
    <3>1. Len(pub'[d].todo) = 0
      <4>1. \A i \in 1..Len(pub'[d].todo) : i + 1 \in 1..1
        BY <1>3, <2>2
      <4> QED BY <1>3, <4>1
    <3> QED BY <1>4, <3>1, EmptySeq
  <2>8. Agrees(manifests[id], Listed(id))'
    BY <2>4 DEF Agrees, BuildingRow
  <2>9. CommandValid(d)'
    <3> SUFFICES ASSUME NEW i \in Ids, i = pub'[d].id
                 PROVE  CommandAt(manifests', Listed(i)', d, i, pub'[d])
      BY DEF CommandValid
    <3>1. CASE pub'[d] = Idle
      BY <1>3, <3>1 DEF CommandAt, Idle
    <3>2. CASE pub'[d].phase = pub[d].phase /\ pub'[d].id = pub[d].id
      <4>1. i = id
        BY <1>5, <3>2
      <4> QED BY <1>8, <2>4, <2>5, <2>6, <2>7, <3>2, <4>1 DEF CommandAt, BuildingRow
    <3> QED BY <1>3, <3>1, <3>2
  <2> QED BY <1>3, <2>4, <2>5, <2>8, <2>9, WriteValid
<1>9. CASE pub[d].phase = "writing"
  <2>1. PICK k \in 0..Len(pub[d].todo) : Remaining(manifests, Listed(id), d, id, pub[d].todo, k)
    BY <1>6, <1>9 DEF CommandAt
  <2>2. ASSUME NEW l \in 0..Len(pub'[d].todo),
               pub'[d] # Idle => Remaining(manifests', Listed(id)', d, id, pub'[d].todo, l)
        PROVE  CommandValid(d)'
    <3> SUFFICES ASSUME NEW i \in Ids, i = pub'[d].id
                 PROVE  CommandAt(manifests', Listed(i)', d, i, pub'[d])
      BY DEF CommandValid
    <3>1. CASE pub'[d] = Idle
      BY <1>3, <3>1 DEF CommandAt, Idle
    <3>2. CASE pub'[d] # Idle
      <4>1. i = id /\ pub'[d].phase = "writing"
        BY <1>3, <1>5, <1>9, <3>2
      <4> QED BY <2>2, <3>2, <4>1 DEF CommandAt
    <3> QED BY <3>1, <3>2
  <2>3. CASE k = 0
    <3>1. 1 \in (k + 1)..Len(pub[d].todo)
      BY <1>4, <2>3
    <3>2. Retires(manifests, w, d, id) /\ Len(pub[d].todo) = 1
      <4>1. \A i \in 1..Len(pub[d].todo) : i = 1 /\ Retires(manifests, pub[d].todo[i], d, id)
        BY <2>1, <2>3 DEF Remaining
      <4>2. Len(pub[d].todo) \in 1..Len(pub[d].todo)
        BY <1>4
      <4> QED BY <1>2, <2>3, <3>1, <4>1, <4>2
    <3>3. PICK q \in {d} \X Revisions :
             /\ q # id /\ manifests[q].status = "AVAILABLE"
             /\ w = Write("manifests", q, [manifests[q] EXCEPT !.status = "SUPERSEDED"])
      BY <3>2 DEF Retires
    <3>4. /\ w.table = "manifests" /\ w.key = q
          /\ w.row = [manifests[q] EXCEPT !.status = "SUPERSEDED"]
      BY <3>3 DEF Write
    <3>5. q \in Ids
      BY DEF Ids
    <3>6. /\ manifests'[q] = [manifests[q] EXCEPT !.status = "SUPERSEDED"]
          /\ \A i \in Ids \ {q} : manifests'[i] = manifests[i]
      BY <1>2, <1>4, <3>4, <3>5
    <3>7. /\ manifests'[q].status = "SUPERSEDED" /\ manifests'[q].lists = manifests[q].lists
          /\ manifests'[q].hash = manifests[q].hash
      BY <1>4, <3>5, <3>6 DEF ManifestRows
    <3>8. \A i : Listed(i)' = Listed(i)
      BY <1>7, <3>4
    <3>9. Agrees(manifests[q], Listed(q))
      BY <3>5 DEF Valid
    <3>10. Agrees(manifests[q], Listed(q))'
      BY <3>3, <3>7, <3>8, <3>9 DEF Agrees
    <3>11. Len(pub'[d].todo) = 0
      <4>1. \A i \in 1..Len(pub'[d].todo) : i + 1 \in 1..1
        BY <1>3, <3>2
      <4> QED BY <1>3, <4>1
    <3>12. Remaining(manifests', Listed(id)', d, id, pub'[d].todo, 0)
      BY <3>11 DEF Remaining
    <3>13. CommandValid(d)'
      BY <2>2, <3>11, <3>12
    <3> QED BY <1>3, <3>6, <3>8, <3>10, <3>13, WriteValid
  <2>4. CASE k = 1
    <3>1. Final(w, id) /\ Listed(id) \subseteq w.row.lists
      BY <1>2, <2>1, <2>4 DEF Remaining
    <3>2. w.table = "manifests" /\ w.key = id
      BY <3>1 DEF Final, Write
    <3>3. manifests'[id] = w.row /\ \A i \in Ids \ {id} : manifests'[i] = manifests[i]
      BY <1>2, <1>4, <1>6, <3>2
    <3>4. \A i : Listed(i)' = Listed(i)
      BY <1>7, <3>2
    <3>5. w.row.lists \subseteq Listed(id)
      <4> SUFFICES ASSUME NEW o \in w.row.lists PROVE o \in Listed(id)
        OBVIOUS
      <4>1. 1 \in 1..Len(pub[d].todo) /\ \A x : ~Before(pub[d].todo, 1, x)
        BY <1>4 DEF Before
      <4>2. <<id, o>> \in relations
        BY <1>1, <1>2, <3>2, <4>1 DEF Covered
      <4>3. o \in Objects
        BY DEF Writes, ManifestRows
      <4> QED BY <4>2, <4>3 DEF Listed
    <3>6. Agrees(manifests[id], Listed(id))'
      BY <3>1, <3>3, <3>4, <3>5 DEF Final, Agrees
    <3>7. ASSUME NEW i \in 1..Len(pub'[d].todo)
          PROVE  i = 1 /\ Retires(manifests', pub'[d].todo[i], d, id)
      <4>1. i + 1 \in (k + 1)..Len(pub[d].todo) /\ pub'[d].todo[i] = pub[d].todo[i + 1]
        BY <1>3, <2>4
      <4>2. i + 1 = k + 1 /\ Retires(manifests, pub[d].todo[i + 1], d, id)
        BY <2>1, <4>1 DEF Remaining
      <4>3. Retires(manifests', pub[d].todo[i + 1], d, id)
        BY <3>3, <4>2 DEF Retires, Ids
      <4>4. i = 1
        BY <2>4, <4>2
      <4> QED BY <4>1, <4>3, <4>4
    <3>8. Remaining(manifests', Listed(id)', d, id, pub'[d].todo, 0)
      BY <3>7 DEF Remaining
    <3>9. CommandValid(d)'
      BY <1>3, <2>2, <3>8
    <3> QED BY <1>3, <3>3, <3>4, <3>6, <3>9, WriteValid
  <2>5. CASE k > 1
    <3>1. /\ manifests[id].status = "BUILDING"
          /\ Final(pub[d].todo[k], id) /\ Listed(id) \subseteq pub[d].todo[k].row.lists
          /\ \A i \in 1..(k - 1) : RowOf(pub[d].todo[i], id, pub[d].todo[k].row.lists)
          /\ \A i \in (k + 1)..Len(pub[d].todo) :
                i = k + 1 /\ Retires(manifests, pub[d].todo[i], d, id)
      BY <2>1, <2>5 DEF Remaining
    <3>2. PICK o \in pub[d].todo[k].row.lists :
             w = Write("storage", o, NoRow) \/ w = Write("relations", <<id, o>>, NoRow)
      <4>1. 1 \in 1..(k - 1)
        BY <2>5
      <4> QED BY <1>2, <3>1, <4>1 DEF RowOf
    <3>3. /\ w.table # "manifests"
          /\ w.table = "relations" => w.key = <<id, o>>
      BY <3>2 DEF Write
    <3>4. manifests' = manifests
      BY <1>2, <3>3
    <3>5. /\ \A i \in Ids \ {id} : Listed(i)' = Listed(i)
          /\ Listed(id)' \subseteq Listed(id) \cup {o}
      BY <1>2, <1>7, <3>3 DEF Listed
    <3>6. Agrees(manifests[id], Listed(id))'
      BY <3>1, <3>4 DEF Agrees
    <3>7. pub'[d] # Idle => /\ k - 1 \in 1..Len(pub'[d].todo)
                            /\ pub'[d].todo[k - 1] = pub[d].todo[k]
      <4> SUFFICES ASSUME pub'[d] # Idle PROVE k - 1 \in 1..Len(pub'[d].todo)
        <5>1. (k - 1) + 1 = k
          BY <2>5
        <5> QED BY <1>3, <5>1
      <4>1. pub'[d] = [pub[d] EXCEPT !.todo = Tail(pub[d].todo), !.held = NoTable]
        <5>1. pub' = [pub EXCEPT ![d] =
                         IF pub[d].phase = "writing" /\ Len(pub[d].todo) = 1 THEN Idle
                         ELSE [pub[d] EXCEPT !.todo = Tail(pub[d].todo), !.held = NoTable]]
          BY <1>1, WriteIs
        <5>2. pub \in [Datasets -> Commands]
          BY <1>1 DEF Typed
        <5> QED BY <5>1, <5>2
      <4>2. pub'[d].todo = Tail(pub[d].todo)
        <5>1. pub[d] \in Commands
          BY <1>1 DEF Typed
        <5> QED BY <4>1, <5>1 DEF Commands
      <4>3. Len(pub'[d].todo) = Len(pub[d].todo) - 1
        BY <1>2, <1>4, <4>2, HeadTailProperties
      <4> QED BY <1>4, <2>5, <4>3
    <3>8. pub'[d] # Idle => Remaining(manifests', Listed(id)', d, id, pub'[d].todo, k - 1)
      <4> SUFFICES ASSUME pub'[d] # Idle
                   PROVE  Remaining(manifests', Listed(id)', d, id, pub'[d].todo, k - 1)
        OBVIOUS
      <4>1. PICK f \in Writes : f = pub[d].todo[k] /\ f = pub'[d].todo[k - 1]
        <5>1. \A i \in 1..Len(pub[d].todo) : pub[d].todo[i] \in Writes
          BY <1>4, ElementOfSeq
        <5> QED BY <2>5, <3>7, <5>1
      <4>2. \A i \in 1..((k - 1) - 1) : RowOf(pub'[d].todo[i], id, f.row.lists)
        <5> SUFFICES ASSUME NEW i \in 1..((k - 1) - 1)
                     PROVE  RowOf(pub'[d].todo[i], id, f.row.lists)
          OBVIOUS
        <5>1. i \in 1..Len(pub'[d].todo) /\ i + 1 \in 1..(k - 1)
          BY <1>3, <2>5, <3>7
        <5> QED BY <1>3, <3>1, <4>1, <5>1
      <4>3. \A i \in ((k - 1) + 1)..Len(pub'[d].todo) :
               i = (k - 1) + 1 /\ Retires(manifests', pub'[d].todo[i], d, id)
        <5> SUFFICES ASSUME NEW i \in ((k - 1) + 1)..Len(pub'[d].todo)
                     PROVE  i = (k - 1) + 1 /\ Retires(manifests', pub'[d].todo[i], d, id)
          OBVIOUS
        <5>1. i \in 1..Len(pub'[d].todo)
          BY <2>5
        <5>2. i + 1 \in (k + 1)..Len(pub[d].todo) /\ pub'[d].todo[i] = pub[d].todo[i + 1]
          BY <1>3, <1>4, <2>5, <5>1
        <5>3. i + 1 = k + 1 /\ Retires(manifests, pub[d].todo[i + 1], d, id)
          BY <3>1, <5>2
        <5> QED BY <2>5, <3>4, <5>2, <5>3
      <4>4. Listed(id)' \subseteq f.row.lists /\ Final(f, id)
        BY <3>1, <3>2, <3>5, <4>1
      <4> QED BY <3>1, <3>4, <4>1, <4>2, <4>3, <4>4 DEF Remaining
    <3>9. CommandValid(d)'
      <4>1. CASE pub'[d] = Idle
        BY <1>3, <4>1 DEF CommandValid, CommandAt, Idle
      <4>2. CASE pub'[d] # Idle
        <5>1. k - 1 \in 0..Len(pub'[d].todo)
          BY <3>7, <4>2
        <5> QED BY <2>2, <3>8, <5>1
      <4> QED BY <4>1, <4>2
    <3> QED BY <1>3, <3>4, <3>5, <3>6, <3>9, WriteValid
  <2> QED BY <2>3, <2>4, <2>5
<1> QED BY <1>4, <1>5, <1>8, <1>9

-----------------------------------------------------------------------------
LEMMA StepValid == ValidInv /\ [Next]_vars => ValidInv'
<1> SUFFICES ASSUME ValidInv, [Next]_vars, ~clobbered', ~retried' PROVE Valid'
  BY StepTransfer DEF ValidInv
<1>1. CASE UNCHANGED vars
  BY <1>1, OthersValid DEF vars, catalog, ValidInv
<1>2. CASE Next
  <2>1. TransferInv /\ ~clobbered
    BY <1>2 DEF ValidInv, Next
  <2>2. ASSUME NEW d \in Datasets, Publish(d) PROVE Valid'
    <3>1. ~retried
      BY <2>2 DEF Publish, Begin, Build, ReadTable, WriteTable, Dies
    <3>2. Valid
      BY <2>1, <3>1 DEF ValidInv
    <3> QED BY <2>1, <2>2, <3>2, BeginValid, BuildValid, ReadTableValid, WriteTableValid,
            DiesValid DEF Publish
  <2>3. CASE Approve \/ Upload \/ Apply
    <3>1. UNCHANGED <<manifests, relations, pub, retried>>
      <4>1. CASE Approve
        BY <4>1 DEF Approve
      <4>2. CASE Upload
        BY <4>2 DEF Upload, BeginUpload, Put, CopyManifests, CopyStorage, CopyRelations,
                    UploadDies, catalog
      <4>3. CASE Apply
        BY <4>3 DEF Apply, ApplyStep, BeginApply, ReadStorage, ReadRelations, Check, Commit,
                    Abort, catalog
      <4> QED BY <2>3, <4>1, <4>2, <4>3
    <3> QED BY <2>1, <3>1, OthersValid DEF ValidInv
  <2> QED BY <1>2, <2>2, <2>3 DEF Next
<1> QED BY <1>1, <1>2

(* validate_catalog finds no fault of a catalog whose commands all ended, as    *)
(* long as no update was lost and no attempt took over the rows of a failed    *)
(* one: what a manifest relates to is what it was hashed over, one object a    *)
(* period, each with its storage row and its bytes.                          *)
THEOREM AlwaysValidWhenEnded == Spec => []ValidWhenEnded
<1>1. ValidInv => ValidWhenEnded
  <2> SUFFICES ASSUME ValidInv, Building = {}, ~clobbered, ~retried, NEW id \in Rows(manifests)
               PROVE  /\ \A o \in Listed(id) : o \in storage /\ o \in local
                      /\ \A o, q \in Listed(id) : o.period = q.period => o = q
                      /\ manifests[id].hash = HashOf(Listed(id))
    BY DEF ValidWhenEnded, ValidationErrors
  <2>1. Typed /\ Sound /\ Valid
    BY DEF ValidInv, TransferInv
  <2>2. id \in Ids /\ manifests[id] # NoRow /\ manifests[id] \in ManifestRows
    BY <2>1 DEF Rows, Typed, TablesTyped
  <2>3. manifests[id].status \in {"AVAILABLE", "SUPERSEDED", "QUARANTINED"}
    BY <2>1, <2>2 DEF Valid, Agrees, Building, ManifestRows, Statuses
  <2>4. /\ Listed(id) = manifests[id].lists
        /\ manifests[id].hash = HashOf(manifests[id].lists)
        /\ OnePerPeriod(manifests[id].lists)
    BY <2>1, <2>2, <2>3 DEF Valid, Agrees
  <2>5. \A o \in Listed(id) : o \in storage /\ o \in local
    BY <2>1, <2>2, <2>4 DEF Sound, Whole, Table, Typed, TablesTyped
  <2> QED BY <2>4, <2>5 DEF OnePerPeriod
<1>2. Spec => []ValidInv
  BY InitValid, StepValid, PTL DEF Spec
<1> QED BY <1>1, <1>2, PTL

-----------------------------------------------------------------------------
(* apply-db and the foreign keys.  A row of the relations has its manifest and *)
(* its object in the files, since a command writes the BUILDING manifest      *)
(* first and the storage row before the relation; manifests never go.         *)
Linked(tables) ==
    \A r \in tables.relations : r[1] \in Rows(tables.manifests) /\ r[2] \in tables.storage

(* What the command of a dataset still writes keeps it so. *)
LinksFirst(d) ==
    /\ pub[d].phase = "building" =>
          /\ \A i \in 1..Len(pub[d].todo) : /\ pub[d].todo[i].table = "manifests"
                                            /\ pub[d].todo[i].key = pub[d].id
          /\ pub[d].todo = <<>> => pub[d].id \in Rows(manifests)
    /\ pub[d].phase = "writing" => pub[d].id \in Rows(manifests)
    /\ \A i \in 1..Len(pub[d].todo) : pub[d].todo[i].table = "relations" =>
          /\ pub[d].todo[i].key[1] \in Rows(manifests)
          /\ \/ pub[d].todo[i].key[2] \in storage
             \/ Before(pub[d].todo, i, Write("storage", pub[d].todo[i].key[2], NoRow))

(* The database knows no manifest that the files do not, nor does apply-db.    *)
DatabaseFollows ==
    /\ Linked(db) /\ Rows(db.manifests) \subseteq Rows(manifests)
    /\ app.phase # "idle" => Rows(app.ops.manifests) \subseteq Rows(manifests)

Keyed == Linked(Table) /\ (\A d \in Datasets : LinksFirst(d)) /\ DatabaseFollows

KeyedInv == TransferInv /\ faults \in Nat /\ (clobbered \/ Keyed)

LEMMA InitKeyed == Init => KeyedInv
<1> SUFFICES ASSUME Init PROVE KeyedInv
  OBVIOUS
<1>1. Linked(Table) /\ Linked(db)
  BY DEF Init, Table, EmptyTables, Linked
<1>2. Rows(db.manifests) \subseteq Rows(manifests) /\ app.phase = "idle"
  BY DEF Init, EmptyTables, IdleApply
<1>3. \A d \in Datasets : LinksFirst(d)
  BY DEF Init, Idle, LinksFirst
<1>4. faults \in Nat
  BY DEF Init
<1> QED BY <1>1, <1>2, <1>3, <1>4, InitTransfer DEF KeyedInv, Keyed, DatabaseFollows

(* Steps that write no table and leave apply-db alone. *)
LEMMA OwnKeyed ==
  ASSUME Keyed, NEW d \in Datasets, LinksFirst(d)', \A e \in Datasets \ {d} : pub'[e] = pub[e],
         UNCHANGED <<manifests, storage, relations, db, app>>
  PROVE  Keyed'
<1>1. Linked(Table)' /\ DatabaseFollows'
  BY DEF Keyed, Linked, Table, DatabaseFollows, Rows
<1>2. ASSUME NEW e \in Datasets \ {d} PROVE LinksFirst(e)'
  <2>1. LinksFirst(e) /\ pub'[e] = pub[e] /\ storage' = storage
    BY DEF Keyed
  <2>2. Rows(manifests') = Rows(manifests)
    OBVIOUS
  <2> QED BY <2>1, <2>2 DEF LinksFirst, Before
<1> QED BY <1>1, <1>2 DEF Keyed

LEMMA OthersKeyed ==
  ASSUME Keyed, UNCHANGED <<manifests, storage, relations, pub>>, DatabaseFollows'
  PROVE  Keyed'
<1>1. Linked(Table)'
  BY DEF Keyed, Linked, Table, Rows
<1>2. ASSUME NEW e \in Datasets PROVE LinksFirst(e)'
  BY <1>2 DEF Keyed, LinksFirst, Before, Rows
<1> QED BY <1>1, <1>2 DEF Keyed

LEMMA BeginKeyed ==
  ASSUME TransferInv, Keyed, NEW d \in Datasets, Begin(d) PROVE Keyed'
<1> DEFINE id == <<d, Latest(d) + 1>>
           w == Write("manifests", id, BuildingRow)
<1>1. PICK o \in Objects :
        pub' = [pub EXCEPT ![d] = [phase |-> "building", id |-> id, new |-> o,
                                   todo |-> <<w>>, held |-> NoTable]]
  BY DEF Begin, BuildingRow
<1>2. UNCHANGED <<manifests, storage, relations, db, app>>
  BY DEF Begin
<1>3. pub \in [Datasets -> Commands]
  BY DEF TransferInv, Typed
<1>4. w.table = "manifests" /\ w.key = id
  BY DEF Write
<1> HIDE DEF id, w
<1>5. /\ pub'[d].phase = "building" /\ pub'[d].id = id /\ pub'[d].todo = <<w>>
      /\ \A e \in Datasets \ {d} : pub'[e] = pub[e]
  BY <1>1, <1>3
<1>6. <<w>> # <<>> /\ Len(<<w>>) = 1 /\ <<w>>[1] = w
  OBVIOUS
<1>7. LinksFirst(d)'
  BY <1>4, <1>5, <1>6 DEF LinksFirst
<1> QED BY <1>2, <1>5, <1>7, OwnKeyed

LEMMA DiesKeyed ==
  ASSUME TransferInv, Keyed, NEW d \in Datasets, Dies(d) PROVE Keyed'
<1>1. /\ pub' = [pub EXCEPT ![d] = Idle] /\ UNCHANGED <<manifests, storage, relations, db, app>>
      /\ pub \in [Datasets -> Commands]
  BY DEF Dies, catalog, TransferInv, Typed
<1>2. LinksFirst(d)'
  BY <1>1 DEF LinksFirst, Idle
<1> QED BY <1>1, <1>2, OwnKeyed

LEMMA ReadTableKeyed ==
  ASSUME TransferInv, Keyed, NEW d \in Datasets, ReadTable(d) PROVE Keyed'
<1>1. PICK h : pub' = [pub EXCEPT ![d].held = h]
  BY DEF ReadTable
<1>2. UNCHANGED <<manifests, storage, relations, db, app>>
  BY DEF ReadTable, catalog
<1>3. pub \in [Datasets -> Commands] /\ pub[d] \in Commands
  BY DEF TransferInv, Typed
<1>4. /\ pub'[d].phase = pub[d].phase /\ pub'[d].id = pub[d].id /\ pub'[d].todo = pub[d].todo
      /\ \A e \in Datasets \ {d} : pub'[e] = pub[e]
  BY <1>1, <1>3 DEF Commands
<1>5. LinksFirst(d)'
  BY <1>2, <1>4 DEF Keyed, LinksFirst, Rows
<1> QED BY <1>2, <1>4, <1>5, OwnKeyed

(* The storage row of an object stands before the row that relates it.        *)
LEMMA StorageRowFirst ==
  ASSUME NEW id \in Ids, NEW S \in SUBSET Objects, IsFiniteSet(S),
         NEW i \in 1..Len(RowsOf(id, S)), RowsOf(id, S)[i].table = "relations"
  PROVE  /\ RowsOf(id, S)[i].key[1] = id
         /\ Before(RowsOf(id, S), i, Write("storage", RowsOf(id, S)[i].key[2], NoRow))
<1> DEFINE n == Cardinality(S)
           row == SetToSeq(S)
           e(j) == IF j % 2 = 1 THEN Write("storage", row[(j + 1) \div 2], NoRow)
                   ELSE Write("relations", <<id, row[j \div 2]>>, NoRow)
           rows == [j \in 1..(2 * n) |-> e(j)]
<1>1. n \in Nat
  BY SetToSeqOfFinite
<1>2. RowsOf(id, S) = rows
  BY DEF RowsOf
<1> HIDE DEF n, row
<1>3. Len(rows) = 2 * n /\ i \in 1..(2 * n)
  <2>1. RowsOf(id, S) \in Seq(Writes)
    BY RowsOfObjects
  <2>2. DOMAIN rows = 1..(2 * n)
    OBVIOUS
  <2>3. rows \in Seq(Writes)
    BY <1>2, <2>1
  <2> HIDE DEF rows
  <2>4. Len(rows) \in Nat /\ 1..Len(rows) = 1..(2 * n)
    BY <2>2, <2>3
  <2>5. i \in 1..(2 * n)
    BY <1>2, <2>4
  <2> QED BY <1>1, <2>4, <2>5
<1>4. rows[i] = e(i)
  BY <1>3
<1>5. i % 2 # 1
  <2> SUFFICES ASSUME i % 2 = 1 PROVE FALSE
    OBVIOUS
  <2>1. rows[i] = Write("storage", row[(i + 1) \div 2], NoRow)
    BY <1>4
  <2> QED BY <1>2, <2>1 DEF Write
<1>6. rows[i] = Write("relations", <<id, row[i \div 2]>>, NoRow)
  BY <1>4, <1>5
<1>7. /\ i - 1 \in 1..(i - 1) /\ i - 1 \in 1..(2 * n)
      /\ (i - 1) % 2 = 1 /\ ((i - 1) + 1) \div 2 = i \div 2
  BY <1>1, <1>3, <1>5
<1>8. rows[i - 1] = Write("storage", row[i \div 2], NoRow)
  BY <1>7
<1> HIDE DEF rows
<1>9. rows[i].key = <<id, row[i \div 2]>>
  BY <1>6 DEF Write
<1>10. rows[i].key[1] = id /\ rows[i].key[2] = row[i \div 2]
  BY <1>9
<1> QED BY <1>2, <1>7, <1>8, <1>10 DEF Before

LEMMA BuildKeyed ==
  ASSUME TransferInv, Keyed, NEW d \in Datasets, Build(d) PROVE Keyed'
<1>1. Typed
  BY DEF TransferInv
<1>2. PICK stored \in BOOLEAN, id \in {d} \X Revisions, new \in Objects,
           S \in SUBSET Objects, row \in ManifestRows, tail \in Seq(Writes),
           todo \in Seq(Writes) : BuildsAs(d, stored, id, new, S, row, tail, todo)
  BY <1>1, BuildIs
<1>3. /\ id \in Ids /\ IsFiniteSet(S) /\ id = pub[d].id
      /\ pub' = [pub EXCEPT ![d].phase = "writing", ![d].todo = todo]
      /\ tail = IF stored THEN Retired(d) ELSE <<>>
      /\ todo = RowsOf(id, S) \o << Write("manifests", id, row) >> \o tail
  BY <1>2 DEF BuildsAs, Ids
<1>4. /\ UNCHANGED <<manifests, storage, relations, db, app>>
      /\ pub[d].phase = "building" /\ pub[d].todo = <<>>
  BY DEF Build
<1>5. id \in Rows(manifests)
  BY <1>3, <1>4 DEF Keyed, LinksFirst
<1>6. /\ pub'[d].phase = "writing" /\ pub'[d].todo = todo /\ pub'[d].id = id
      /\ \A e \in Datasets \ {d} : pub'[e] = pub[e]
  <2>1. pub \in [Datasets -> Commands] /\ pub[d] \in Commands
    BY <1>1 DEF Typed
  <2> QED BY <1>3, <2>1 DEF Commands
<1>7. ASSUME NEW i \in 1..Len(todo), todo[i].table = "relations"
      PROVE  todo[i].key[1] = id /\ Before(todo, i, Write("storage", todo[i].key[2], NoRow))
  <2> DEFINE rows == RowsOf(id, S)
             w == Write("manifests", id, row)
  <2>1. rows \in Seq(Writes) /\ Len(rows) \in Nat
    BY <1>3, RowsOfObjects, LenProperties
  <2>2. w \in Writes /\ w.table = "manifests"
    BY <1>3 DEF Write, Writes
  <2>3. todo = rows \o <<w>> \o tail
    BY <1>3
  <2>4. \A j \in 1..Len(tail) : tail[j].table = "manifests"
    <3> SUFFICES ASSUME NEW j \in 1..Len(tail) PROVE tail[j].table = "manifests"
      OBVIOUS
    <3>1. tail # <<>>
      BY EmptySeq
    <3>2. PICK r \in Revisions : tail = << Write("manifests", <<d, r>>, RetiredRow(<<d, r>>)) >>
      BY <1>1, <1>3, <3>1, TailIs
    <3>3. j = 1
      BY <3>2
    <3>4. tail[j] = Write("manifests", <<d, r>>, RetiredRow(<<d, r>>))
      BY <3>2, <3>3
    <3> QED BY <3>4 DEF Write
  <2>5. \A j \in 1..Len(rows) : rows[j].table = "relations" =>
           rows[j].key[1] = id /\ Before(rows, j, Write("storage", rows[j].key[2], NoRow))
    BY <1>3, StorageRowFirst
  <2> HIDE DEF rows, w
  <2>6. <<w>> \in Seq(Writes) /\ Len(<<w>>) = 1 /\ <<w>>[1] = w
    BY <2>2
  <2>7. /\ rows \o <<w>> \in Seq(Writes) /\ Len(rows \o <<w>>) = Len(rows) + 1
        /\ \A j \in 1..Len(rows) + 1 :
              (rows \o <<w>>)[j] = IF j <= Len(rows) THEN rows[j] ELSE <<w>>[j - Len(rows)]
    BY <2>1, <2>6, ConcatProperties
  <2>8. PICK both \in Seq(Writes) :
          /\ both = rows \o <<w>> /\ Len(both) = Len(rows) + 1 /\ todo = both \o tail
    BY <2>3, <2>7
  <2>9. /\ Len(todo) = Len(both) + Len(tail) /\ Len(tail) \in Nat
        /\ \A j \in 1..Len(both) + Len(tail) :
              todo[j] = IF j <= Len(both) THEN both[j] ELSE tail[j - Len(both)]
    BY <2>8, ConcatProperties, LenProperties
  <2>10. \A j \in 1..Len(rows) : todo[j] = rows[j]
    <3> SUFFICES ASSUME NEW j \in 1..Len(rows) PROVE todo[j] = rows[j]
      OBVIOUS
    <3>1. /\ j \in 1..Len(both) + Len(tail) /\ j <= Len(both)
          /\ j \in 1..Len(rows) + 1 /\ j <= Len(rows)
      BY <2>1, <2>8, <2>9
    <3> QED BY <2>7, <2>8, <2>9, <3>1
  <2>11. i \in 1..Len(rows)
    <3>1. CASE i = Len(rows) + 1
      <4>1. i \in 1..Len(both) + Len(tail) /\ i <= Len(both)
        BY <2>1, <2>8, <2>9, <3>1
      <4>2. i \in 1..Len(rows) + 1 /\ ~(i <= Len(rows)) /\ i - Len(rows) = 1
        BY <2>1, <3>1
      <4>3. todo[i] = w
        BY <2>6, <2>7, <2>8, <2>9, <4>1, <4>2
      <4> QED BY <1>7, <2>2, <4>3
    <3>2. CASE i > Len(rows) + 1
      <4>1. /\ i \in 1..Len(both) + Len(tail) /\ ~(i <= Len(both))
            /\ i - Len(both) \in 1..Len(tail)
        BY <2>1, <2>8, <2>9, <3>2
      <4>2. todo[i] = tail[i - Len(both)]
        BY <2>9, <4>1
      <4> QED BY <1>7, <2>4, <4>1, <4>2
    <3> QED BY <2>1, <2>8, <2>9, <3>1, <3>2
  <2>12. todo[i] = rows[i] /\ \A j \in 1..(i - 1) : todo[j] = rows[j]
    BY <2>1, <2>10, <2>11
  <2> QED BY <1>7, <2>5, <2>11, <2>12 DEF Before
<1>8. LinksFirst(d)'
  BY <1>4, <1>5, <1>6, <1>7 DEF LinksFirst, Rows
<1> QED BY <1>4, <1>6, <1>8, OwnKeyed

LEMMA WriteTableKeyed ==
  ASSUME TransferInv, Keyed, NEW d \in Datasets, WriteTable(d), ~clobbered' PROVE Keyed'
<1>1. Typed
  BY DEF TransferInv
<1>2. PICK w \in Writes :
        /\ w = pub[d].todo[1] /\ Fits(d, w) /\ pub[d].todo # <<>>
        /\ manifests' = IF w.table = "manifests" THEN [manifests EXCEPT ![w.key] = w.row]
                        ELSE manifests
        /\ storage' = IF w.table = "storage" THEN storage \cup {w.key} ELSE storage
        /\ relations' = IF w.table = "relations" THEN relations \cup {w.key} ELSE relations
  BY <1>1, WriteAdds
<1>3. /\ \A e \in Datasets \ {d} : pub'[e] = pub[e]
      /\ Len(pub'[d].todo) \in Nat
      /\ \/ pub'[d] = Idle
         \/ /\ pub'[d].phase = pub[d].phase /\ pub'[d].id = pub[d].id
            /\ pub[d].phase # "idle"
      /\ \A i \in 1..Len(pub'[d].todo) :
            i + 1 \in 1..Len(pub[d].todo) /\ pub'[d].todo[i] = pub[d].todo[i + 1]
  BY <1>1, RestIs
<1>4. /\ manifests \in [Ids -> ManifestRows] /\ UNCHANGED <<db, app>>
      /\ pub[d].todo \in Seq(Writes) /\ 1 \in 1..Len(pub[d].todo)
  <2>1. pub[d] \in Commands /\ manifests \in [Ids -> ManifestRows]
    BY <1>1 DEF Typed, TablesTyped
  <2> QED BY <1>2, <2>1, EmptySeq DEF Commands, WriteTable
<1>5. /\ Rows(manifests) \subseteq Rows(manifests')
      /\ w.table = "manifests" => w.key \in Rows(manifests')
  <2>1. w.table = "manifests" => w.key \in Ids /\ w.row # NoRow
    BY <1>2 DEF Fits, Ids
  <2> QED BY <1>2, <1>4, <2>1 DEF Rows
<1>6. storage \subseteq storage' /\ (w.table = "storage" => w.key \in storage')
  BY <1>2
<1>7. w.table = "relations" => w.key[1] \in Rows(manifests) /\ w.key[2] \in storage
  <2>1. \A x : ~Before(pub[d].todo, 1, x)
    BY DEF Before
  <2> QED BY <1>2, <1>4, <2>1 DEF Keyed, LinksFirst
<1>8. Linked(Table)'
  <2> SUFFICES ASSUME NEW r \in relations' PROVE r[1] \in Rows(manifests') /\ r[2] \in storage'
    BY DEF Linked, Table
  <2>1. r \in relations \/ (w.table = "relations" /\ r = w.key)
    BY <1>2
  <2>2. r \in relations => r[1] \in Rows(manifests) /\ r[2] \in storage
    BY DEF Keyed, Linked, Table
  <2> QED BY <1>5, <1>6, <1>7, <2>1, <2>2
<1>9. DatabaseFollows'
  BY <1>4, <1>5 DEF Keyed, DatabaseFollows, Linked, Rows
<1>10. ASSUME NEW e \in Datasets \ {d} PROVE LinksFirst(e)'
  BY <1>3, <1>5, <1>6, <1>10 DEF Keyed, LinksFirst, Before
<1>11. ASSUME NEW i \in 1..Len(pub'[d].todo), pub'[d].todo[i].table = "relations"
       PROVE  /\ pub'[d].todo[i].key[1] \in Rows(manifests')
              /\ \/ pub'[d].todo[i].key[2] \in storage'
                 \/ Before(pub'[d].todo, i, Write("storage", pub'[d].todo[i].key[2], NoRow))
  <2> DEFINE x == Write("storage", pub'[d].todo[i].key[2], NoRow)
  <2>1. i + 1 \in 1..Len(pub[d].todo) /\ pub'[d].todo[i] = pub[d].todo[i + 1]
    BY <1>3
  <2>2. /\ pub'[d].todo[i].key[1] \in Rows(manifests)
        /\ pub'[d].todo[i].key[2] \in storage \/ Before(pub[d].todo, i + 1, x)
    BY <1>11, <2>1 DEF Keyed, LinksFirst
  <2>3. x.table = "storage" /\ x.key = pub'[d].todo[i].key[2]
    BY DEF Write
  <2> HIDE DEF x
  <2>4. ASSUME Before(pub[d].todo, i + 1, x) PROVE x.key \in storage' \/ Before(pub'[d].todo, i, x)
    <3>1. PICK j \in 1..((i + 1) - 1) : pub[d].todo[j] = x
      BY <2>4 DEF Before
    <3>2. CASE j = 1
      BY <1>2, <1>6, <2>3, <3>1, <3>2
    <3>3. CASE j # 1
      <4>1. /\ j - 1 \in 1..(i - 1) /\ j - 1 \in 1..Len(pub'[d].todo) /\ (j - 1) + 1 = j
        BY <1>3, <3>3
      <4>2. pub'[d].todo[j - 1] = x
        BY <1>3, <3>1, <4>1
      <4> QED BY <4>1, <4>2 DEF Before
    <3> QED BY <3>2, <3>3
  <2> QED BY <1>5, <1>6, <2>2, <2>3, <2>4 DEF x
<1>12. LinksFirst(d)'
  <2>1. CASE pub'[d] = Idle
    BY <2>1 DEF LinksFirst, Idle
  <2>2. CASE pub'[d].phase = pub[d].phase /\ pub'[d].id = pub[d].id
    <3>1. ASSUME pub'[d].phase = "building"
          PROVE  /\ \A i \in 1..Len(pub'[d].todo) : /\ pub'[d].todo[i].table = "manifests"
                                                    /\ pub'[d].todo[i].key = pub'[d].id
                 /\ pub'[d].id \in Rows(manifests')
      <4>1. \A i \in 1..Len(pub[d].todo) : /\ pub[d].todo[i].table = "manifests"
                                           /\ pub[d].todo[i].key = pub[d].id
        BY <2>2, <3>1 DEF Keyed, LinksFirst
      <4>2. w.table = "manifests" /\ w.key = pub[d].id
        BY <1>2, <1>4, <4>1
      <4> QED BY <1>3, <1>5, <2>2, <4>1, <4>2
    <3>2. pub'[d].phase = "writing" => pub'[d].id \in Rows(manifests')
      BY <1>5, <2>2 DEF Keyed, LinksFirst
    <3> QED BY <1>11, <3>1, <3>2 DEF LinksFirst
  <2> QED BY <1>3, <2>1, <2>2
<1> QED BY <1>8, <1>9, <1>10, <1>12 DEF Keyed

(* What apply-db would commit over the tables as they are.  *)
LEMMA AppliedRows ==
  ASSUME Typed, DatabaseFollows, NEW ops, ops.manifests \in [Ids -> ManifestRows],
         Rows(ops.manifests) \subseteq Rows(manifests)
  PROVE  Rows(Applied(ops).manifests) \subseteq Rows(manifests)
<1>1. db.manifests \in [Ids -> ManifestRows]
  BY DEF Typed, ReadersTyped, Tables
<1>2. Applied(ops).manifests = [id \in Ids |-> IF ops.manifests[id] = NoRow THEN db.manifests[id]
                                               ELSE ops.manifests[id]]
  BY DEF Applied
<1> QED BY <1>1, <1>2 DEF Rows, DatabaseFollows

LEMMA ApplyKeyed ==
  ASSUME TransferInv, Keyed, Apply PROVE Keyed'
<1>0. Typed /\ app.ops \in Tables
  BY DEF TransferInv, Typed, ReadersTyped
<1>1. UNCHANGED <<manifests, storage, relations, pub>>
  BY DEF Apply, ApplyStep, BeginApply, ReadStorage, ReadRelations, Check, Commit, Abort, catalog
<1>2. CASE BeginApply
  <2>1. app'.ops.manifests = manifests /\ UNCHANGED db
    BY <1>2 DEF BeginApply, EmptyTables
  <2>2. DatabaseFollows'
    BY <1>1, <2>1 DEF Keyed, DatabaseFollows, Linked, Rows
  <2> QED BY <1>1, <2>2, OthersKeyed
<1>3. CASE ReadStorage \/ ReadRelations \/ Check \/ Abort
  <2>1. app.phase # "idle" /\ UNCHANGED db
    BY <1>3 DEF ReadStorage, ReadRelations, Check, Abort
  <2>2. PICK a \in [phase : {"idle", "storage", "relations", "check", "commit"}, ops : Tables] :
           a = app
    BY <1>0 DEF Typed, ReadersTyped
  <2>3. app'.phase = "idle" \/ app'.ops.manifests = app.ops.manifests
    <3>1. CASE ReadStorage
      BY <2>2, <3>1 DEF ReadStorage, Tables
    <3>2. CASE ReadRelations
      BY <2>2, <3>2 DEF ReadRelations, Tables
    <3>3. CASE Check
      BY <2>2, <3>3 DEF Check, IdleApply
    <3>4. CASE Abort
      BY <3>4 DEF Abort, IdleApply
    <3> QED BY <1>3, <3>1, <3>2, <3>3, <3>4
  <2>4. DatabaseFollows'
    BY <1>1, <2>1, <2>3 DEF Keyed, DatabaseFollows, Linked, Rows
  <2> QED BY <1>1, <2>4, OthersKeyed
<1>4. CASE Commit
  <2>1. /\ app.phase = "commit" /\ Constrained(Applied(app.ops)) /\ db' = Applied(app.ops)
        /\ app'.phase = "idle"
    BY <1>4 DEF Commit, IdleApply
  <2>2. Linked(db')
    BY <2>1 DEF Constrained, Linked
  <2>3. Rows(db'.manifests) \subseteq Rows(manifests)
    BY <1>0, <2>1, AppliedRows DEF Keyed, DatabaseFollows, Tables
  <2>4. DatabaseFollows'
    BY <1>1, <2>1, <2>2, <2>3 DEF DatabaseFollows, Linked, Rows
  <2> QED BY <1>1, <2>4, OthersKeyed
<1> QED BY <1>2, <1>3, <1>4 DEF Apply, ApplyStep

LEMMA StepKeyed == KeyedInv /\ [Next]_vars => KeyedInv'
<1> SUFFICES ASSUME KeyedInv, [Next]_vars PROVE faults' \in Nat /\ (clobbered' \/ Keyed')
  BY StepTransfer DEF KeyedInv
<1>1. faults' \in Nat
  <2>1. faults' = faults \/ faults' = faults + 1
    <3>1. CASE Next
      BY <3>1 DEF Next, Publish, Begin, Build, ReadTable, WriteTable, Dies, Approve, Upload,
         BeginUpload, Put, CopyManifests, CopyStorage, CopyRelations, UploadDies, Apply,
         ApplyStep, BeginApply, ReadStorage, ReadRelations, Check, Commit, Abort
    <3> QED BY <3>1 DEF vars
  <2> QED BY <2>1 DEF KeyedInv
<1> SUFFICES ASSUME ~clobbered' PROVE Keyed'
  BY <1>1
<1>2. CASE UNCHANGED vars
  <2>1. Keyed /\ UNCHANGED <<manifests, storage, relations, pub, db, app>>
    BY <1>2 DEF vars, catalog, KeyedInv
  <2>2. DatabaseFollows'
    BY <2>1 DEF Keyed, DatabaseFollows, Linked, Rows
  <2> QED BY <2>1, <2>2, OthersKeyed
<1>3. CASE Next
  <2>1. TransferInv /\ Keyed
    BY <1>3 DEF KeyedInv, Next
  <2>2. CASE \E d \in Datasets : Publish(d)
    BY <2>1, <2>2, BeginKeyed, BuildKeyed, ReadTableKeyed, WriteTableKeyed, DiesKeyed DEF Publish
  <2>3. CASE Approve \/ Upload
    <3>1. UNCHANGED <<manifests, storage, relations, pub, db, app>>
      BY <2>3 DEF Approve, Upload, BeginUpload, Put, CopyManifests, CopyStorage, CopyRelations,
                  UploadDies, catalog
    <3>2. DatabaseFollows'
      BY <2>1, <3>1 DEF Keyed, DatabaseFollows, Linked, Rows
    <3> QED BY <2>1, <3>1, <3>2, OthersKeyed
  <2>4. CASE Apply
    BY <2>1, <2>4, ApplyKeyed
  <2> QED BY <1>3, <2>2, <2>3, <2>4 DEF Next
<1> QED BY <1>2, <1>3

(* No foreign key of dataset_objects fails in a transaction over the tables as *)
(* they are, whatever commands died before: PostgreSQL rolls apply-db back     *)
(* when a table changed between its reads, or for two equal hashes.            *)
THEOREM AlwaysAbortsForCause == Spec => AbortsForCause
<1>1. ASSUME KeyedInv, [Next]_vars
      PROVE  [Abort /\ UNCHANGED faults =>
                 app.ops # Table \/ DuplicateHashes(manifests) \/ Swaps(app.ops)]_vars
  <2> SUFFICES ASSUME Next, Abort, UNCHANGED faults, app.ops = Table,
                      ~DuplicateHashes(manifests), ~Swaps(app.ops)
               PROVE  FALSE
    BY <1>1
  <2>1. Typed /\ Keyed /\ faults \in Nat
    BY <1>1 DEF KeyedInv, TransferInv, Next
  <2>2. ~Constrained(Applied(Table))
    BY <2>1 DEF Abort
  <2>3. /\ manifests \in [Ids -> ManifestRows] /\ db.manifests \in [Ids -> ManifestRows]
        /\ Rows(db.manifests) \subseteq Rows(manifests) /\ Linked(db) /\ Linked(Table)
    BY <2>1 DEF Typed, TablesTyped, ReadersTyped, Tables, Keyed, DatabaseFollows
  <2>4. Applied(Table).manifests = manifests
    <3>1. \A id \in Ids : manifests[id] = NoRow => db.manifests[id] = NoRow
      BY <2>3 DEF Rows
    <3>2. Applied(Table).manifests = [id \in Ids |-> IF manifests[id] = NoRow THEN db.manifests[id]
                                                     ELSE manifests[id]]
      BY DEF Applied, Table
    <3> QED BY <2>3, <3>1, <3>2
  <2>5. /\ Applied(Table).storage = db.storage \cup storage
        /\ Applied(Table).relations = db.relations \cup relations
    BY DEF Applied, Table
  <2>6. \A r \in db.relations \cup relations : r[1] \in Rows(manifests) /\ r[2] \in db.storage \cup storage
    BY <2>3 DEF Linked, Table
  <2> QED BY <2>2, <2>4, <2>5, <2>6 DEF Constrained
<1>2. Spec => []KeyedInv
  BY InitKeyed, StepKeyed, PTL DEF Spec
<1> QED BY <1>1, <1>2, PTL DEF Spec, AbortsForCause
================================================================================
