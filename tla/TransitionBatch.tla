--------------------------- MODULE TransitionBatch ---------------------------
(***************************************************************************)
(* The world around the transition relation: a host plans a batch, the     *)
(* statement is written, several parties contribute their private          *)
(* material, and the relation judges what arrives.  The host may plan a    *)
(* batch that does not add up, the statement may be misstated, and a       *)
(* contribution may be lost, repeated, swapped with its neighbour's or     *)
(* left over from another batch.  The relation is the code's               *)
(* (TransitionRelation); host and parties are not part of the repository.  *)
(***************************************************************************)
EXTENDS TransitionRelation

CONSTANTS Profiles,      \* privacy profiles a batch may use
          Paddings,      \* numbers of verifier-only inputs before the last cell
          MaxHostFaults, \* bound on changes of the plan and misstatements
          MaxLapses      \* bound on contributions gone wrong

ASSUME BatchAssumption ==
    /\ \A p \in Profiles : ProfileParses(p)
    /\ Paddings \subseteq Nat /\ MaxHostFaults \in Nat /\ MaxLapses \in Nat

VARIABLES plan,     \* what the host intends
          replans,  \* how often the host has changed it
          false,    \* what the host has misstated, in order
          lapses,   \* what went wrong with the contributions, in order
          result    \* the public result, once the relation has been evaluated

vars == <<plan, replans, false, lapses, result>>

Pending == [NoResult EXCEPT !.verdict = [stage |-> "none", code |-> "pending"]]

(***************************************************************************)
(* Plans.  A key is a number; keys of another batch differ by its tag.     *)
(***************************************************************************)

CarrierValue == 1
BoundaryValue == 2

\* The number of cells left after the fees of a two-note batch are paid.
CellsFor(p) == p.minCreatedCells + 1 + (2 * p.flatFee) \div p.cellValue

Share(k, half) == IF k <= half THEN 1 ELSE 2

BasePlan(p, padding, tag) ==
    LET cells == CellsFor(p)
        created == p.minCreatedCells
        Worth(count, half, n) == p.cellValue * Cardinality({k \in 1 .. count : Share(k, half) = n})
    IN  [profile |-> p, padding |-> padding, tag |-> tag,
         notes |-> [n \in 1 .. 2 |-> [value |-> Worth(cells, cells \div 2, n), key |-> tag + n]],
         cells |-> [k \in 1 .. cells |-> [note |-> Share(k, cells \div 2), sats |-> p.cellValue, value |-> p.cellValue]],
         newNotes |-> [n \in 1 .. 2 |-> [value |-> Worth(created, created \div 2, n), key |-> tag + 10 + n, kem |-> tag + 20 + n]],
         newCells |-> [k \in 1 .. created |-> [note |-> Share(k, created \div 2), sats |-> p.cellValue,
                                               value |-> p.cellValue, exit |-> tag + 30 + k]],
         networkFee |-> p.cellValue, serviceFee |-> 2 * p.flatFee]

OtherBatch(pl) == BasePlan(pl.profile, pl.padding, pl.tag + 50)

InputIndex(pl, k) == IF k = Len(pl.cells) THEN k - 1 + pl.padding ELSE k - 1
CellsOfNote(cells, n) == Kept([k \in DOMAIN cells |-> k], {k \in DOMAIN cells : cells[k].note = n})

PriorScope(pl, n) == Hash("prior-scope", <<pl.tag, n>>)

Inputs(pl) ==
    LET count == Len(pl.cells)
        Cell(k) == [outpoint |-> <<pl.tag, k>>, value |-> pl.cells[k].sats, role |-> "private-backing",
                    lock |-> Seal(pl.profile, Hash("sha256", pl.tag + 40 + k))]
        Verifier(k, value) == [outpoint |-> <<pl.tag, count + 1 + k>>, value |-> value,
                               role |-> "verifier-only", lock |-> <<"other">>]
    IN  [k \in 1 .. count - 1 |-> Cell(k)]
        \o [k \in 1 .. pl.padding |-> Verifier(k, 0)]
        \o << Cell(count), Verifier(0, pl.profile.carrierCount * CarrierValue + BoundaryValue) >>

(***************************************************************************)
(* The honest batch of a plan, from the bottom up: the skeleton and its    *)
(* scope, the openings, bundles, notes and packets, and then, from these   *)
(* parts, the statement and the material of every party.                   *)
(***************************************************************************)

Outputs(pl, bin) ==
    LET Output(value, role, lock, slot) == [value |-> value, role |-> role, lock |-> lock, slot |-> slot]
    IN  [k \in DOMAIN pl.newCells |->
            Output(pl.newCells[k].sats, "private-backing", Seal(pl.profile, Hash("sha256", pl.newCells[k].exit)), FALSE)]
        \o [n \in 1 .. pl.profile.carrierCount |-> Output(CarrierValue, "carrier", CarrierLock(bin, n), FALSE)]
        \o (IF pl.serviceFee > 0 THEN << Output(pl.serviceFee, "aggregator-fee", <<"other">>, FALSE) >> ELSE <<>>)
        \o << Output(BoundaryValue, "boundary", <<"other">>, TRUE) >>

\* The parts of the statement its nonce and scope are over.
Skeleton(pl) ==
    LET bare == [network |-> "regtest", mode |-> "private-transition", profile |-> ProfileId(pl.profile),
                 relation |-> pl.profile.relation, program |-> "program",
                 verifier |-> Len(pl.cells) + pl.padding, inputs |-> Inputs(pl), outputs |-> Outputs(pl, Absent),
                 createdCells |-> [k \in DOMAIN pl.newCells |->
                                      [index |-> k - 1, profile |-> LockingProfile(pl.profile)]],
                 nonce |-> Absent]
    IN  [bare EXCEPT !.nonce = BatchNonce(bare)]

MakeBundle(scope, openings) ==
    [scope |-> scope,
     members |-> [k \in DOMAIN openings |->
                    [slot |-> openings[k].slot, value |-> openings[k].value,
                     profile |-> openings[k].profile, blinder |-> openings[k].blinder]]]
MakeNote(value, key, bundle, nonce) ==
    [asset |-> AssetId, value |-> value, owner |-> OwnerCommitment(key),
     bundle |-> BundleCommitment(bundle), nonce |-> nonce]

Both(Of(_)) == <<Of(1), Of(2)>>
Own(cells, openings, n) ==
    LET own == CellsOfNote(cells, n) IN [j \in DOMAIN own |-> openings[own[j]]]

OldOpenings(pl) ==
    [k \in DOMAIN pl.cells |->
        [scope |-> PriorScope(pl, pl.cells[k].note), slot |-> k, value |-> pl.cells[k].value,
         profile |-> LockingProfile(pl.profile), blinder |-> <<pl.tag, k>>]]
NewOpenings(pl, scope) ==
    [k \in DOMAIN pl.newCells |->
        [scope |-> scope, slot |-> k - 1, value |-> pl.newCells[k].value,
         profile |-> LockingProfile(pl.profile), blinder |-> <<pl.tag, 50 + k>>]]
Descriptor(pl, n) == [network |-> "regtest", kem |-> pl.newNotes[n].kem, key |-> pl.newNotes[n].key]

Parts(pl) ==
    LET skeleton == Skeleton(pl)
        scope == CreationScope(skeleton)
        old == OldOpenings(pl)
        new == NewOpenings(pl, scope)
        bundles == Both(LAMBDA n : MakeBundle(PriorScope(pl, n), Own(pl.cells, old, n)))
        newBundles == Both(LAMBDA n : MakeBundle(scope, Own(pl.newCells, new, n)))
        notes == Both(LAMBDA n : MakeNote(pl.notes[n].value, pl.notes[n].key, bundles[n], <<pl.tag, n>>))
        newNotes == Both(LAMBDA n :
            MakeNote(pl.newNotes[n].value, pl.newNotes[n].key, newBundles[n], <<pl.tag, 10 + n>>))
        ids == Both(LAMBDA n : NoteCommitment(notes[n]))
        newIds == Both(LAMBDA n : NoteCommitment(newNotes[n]))
        seeds == Both(LAMBDA n : <<pl.tag, 20 + n>>)
        packets == Both(LAMBDA n :
            Packet(Plaintext(n - 1, newIds[n], scope, newNotes[n], newBundles[n]), Descriptor(pl, n), seeds[n]))
        nullifiers == Both(LAMBDA n : Nullifier(pl.notes[n].key, ids[n], notes[n].bundle))
    IN  [skeleton |-> skeleton, scope |-> scope, old |-> old, new |-> new,
         bundles |-> bundles, newBundles |-> newBundles, notes |-> notes, newNotes |-> newNotes,
         ids |-> ids, newIds |-> newIds, descriptors |-> Both(LAMBDA n : Descriptor(pl, n)), seeds |-> seeds,
         packets |-> packets, nullifiers |-> nullifiers]

Statement(pl, parts, outputs) ==
    [network |-> "regtest", mode |-> "private-transition", profile |-> ProfileId(pl.profile),
     relation |-> pl.profile.relation, program |-> "program", verifier |-> parts.skeleton.verifier,
     nonce |-> parts.skeleton.nonce, scope |-> parts.scope,
     consumed |-> Both(LAMBDA n : [note |-> parts.ids[n], nullifier |-> parts.nullifiers[n]]),
     consumedCells |-> [k \in DOMAIN pl.cells |->
        [index |-> InputIndex(pl, k), cell |-> CellCommitment(parts.old[k]), profile |-> LockingProfile(pl.profile)]],
     created |-> Both(LAMBDA n : [note |-> parts.newIds[n], packet |-> n - 1, hash |-> PacketHash(parts.packets[n])]),
     createdCells |-> [k \in DOMAIN pl.newCells |->
        [index |-> k - 1, cell |-> CellCommitment(parts.new[k]), profile |-> LockingProfile(pl.profile),
         exit |-> ExitCommitment(pl.newCells[k].exit)]],
     root |-> BinRoot(PacketBin(parts.packets)), networkFee |-> pl.networkFee, serviceFee |-> pl.serviceFee,
     feeOutput |-> IF pl.serviceFee > 0 THEN Len(pl.newCells) + pl.profile.carrierCount ELSE NoOutput,
     totalIn |-> Sum(parts.skeleton.inputs, LAMBDA x : x.value), totalOut |-> Sum(outputs, LAMBDA x : x.value),
     inputs |-> parts.skeleton.inputs, outputs |-> outputs]

\* What every party supplies for a statement with commitment com.
Material(pl, parts, st, com) ==
    [profile |-> pl.profile, expected |-> com, statement |-> st,
     consumed |-> Both(LAMBDA n :
        [statement |-> com, id |-> parts.ids[n], note |-> parts.notes[n], bundle |-> parts.bundles[n]]),
     created |-> Both(LAMBDA n :
        [statement |-> com, id |-> parts.newIds[n], note |-> parts.newNotes[n], bundle |-> parts.newBundles[n]]),
     consumedCells |-> [k \in DOMAIN pl.cells |->
        [statement |-> com, id |-> parts.ids[pl.cells[k].note], source |-> <<pl.tag, k>>, index |-> InputIndex(pl, k),
         cell |-> CellCommitment(parts.old[k]), opening |-> parts.old[k]]],
     createdCells |-> [k \in DOMAIN pl.newCells |->
        [statement |-> com, id |-> parts.newIds[pl.newCells[k].note], index |-> k - 1,
         cell |-> CellCommitment(parts.new[k]), opening |-> parts.new[k]]],
     exits |-> [k \in DOMAIN pl.newCells |-> [statement |-> com, index |-> k - 1, key |-> pl.newCells[k].exit]],
     authorities |-> Both(LAMBDA n :
        [statement |-> com, id |-> parts.ids[n], note |-> parts.ids[n], bundle |-> parts.notes[n].bundle,
         key |-> pl.notes[n].key,
         signature |-> Signature(pl.notes[n].key, SpendMessage(com, parts.ids[n], parts.notes[n].bundle))]),
     nullifiers |-> Both(LAMBDA n :
        [statement |-> com, id |-> parts.ids[n], note |-> parts.ids[n], bundle |-> parts.notes[n].bundle,
         key |-> pl.notes[n].key, nullifier |-> parts.nullifiers[n]]),
     recovery |-> Both(LAMBDA n :
        [statement |-> com, id |-> parts.newIds[n], note |-> parts.newIds[n], scope |-> parts.scope, packet |-> n - 1,
         descriptor |-> parts.descriptors[n], seed |-> parts.seeds[n]]),
     table |-> [statement |-> com, packets |-> parts.packets, hashes |-> Both(LAMBDA n : PacketHash(parts.packets[n])),
                bin |-> PacketBin(parts.packets), root |-> BinRoot(PacketBin(parts.packets))]]

\* Writing changes the statement before anything commits to it.
Committed(pl, parts, st) == Material(pl, parts, st, StatementCommitment(st))
Written(pl, parts, Writing(_)) ==
    Committed(pl, parts, Writing(Statement(pl, parts, Outputs(pl, PacketBin(parts.packets)))))
Batch(pl, Writing(_)) == Written(pl, Parts(pl), Writing)

HonestBatch(pl) == Batch(pl, LAMBDA st : st)

(***************************************************************************)
(* What can go wrong.  An edit replaces one field of one item by the value *)
(* the field has in another item (from = "this": the next one of the same  *)
(* collection; from = "other": its counterpart in another batch), or loses *)
(* or repeats an item.                                                     *)
(***************************************************************************)

Tuples == {"consumed", "created", "consumedCells", "createdCells", "inputs", "outputs"}
Collections == {"consumed", "created", "consumedCells", "createdCells", "exits", "authorities", "nullifiers", "recovery"}
HashFields == {"profile", "nonce", "scope", "root"}
NumberFields == {"verifier", "networkFee", "serviceFee", "feeOutput", "totalIn", "totalOut"}

NextItem(k, count) == (k % count) + 1

\* r with field f of item k of collection c taken from elsewhere.
Graft(r, other, e) ==
    LET source == IF e.from = "this" THEN r[e.collection][NextItem(e.item, Len(r[e.collection]))]
                                     ELSE other[e.collection][NextItem(e.item - 1, Len(other[e.collection]))]
    IN  [r EXCEPT ![e.collection] = [@ EXCEPT ![e.item] = [@ EXCEPT ![e.field] = source[e.field]]]]

Misstated(st, other, e) ==
    CASE e.kind = "misstate-tuple" -> Graft(st, other, e)
      [] e.kind = "misstate-hash" -> [st EXCEPT ![e.field] = other[e.field]]
      [] e.kind = "misstate-number" -> [st EXCEPT ![e.field] = @ + 1]
      [] OTHER -> st

Tampered(i, other, e) ==
    CASE e.kind = "graft" -> Graft(i, other, e)
      [] e.kind = "lose" -> [i EXCEPT ![e.collection] = RemoveAt(@, e.item)]
      [] e.kind = "repeat" -> [i EXCEPT ![e.collection] = InsertAt(@, e.item, @[e.item])]
      [] e.kind = "graft-table" -> [i EXCEPT !.table = [@ EXCEPT ![e.field] = other.table[e.field]]]
      [] e.kind = "graft-expected" -> [i EXCEPT !.expected = other.expected]
      [] OTHER -> i

AllMisstated(st, other, misstatements) == FoldLeft(LAMBDA s, e : Misstated(s, other, e), st, misstatements)
AllTampered(material, other, edits) == FoldLeft(LAMBDA i, e : Tampered(i, other, e), material, edits)

\* The proving input that arrives.
GoneWrong(pl, misstatements, edits, other) ==
    AllTampered(Batch(pl, LAMBDA st : AllMisstated(st, other.statement, misstatements)), other, edits)

input == GoneWrong(plan, false, lapses, HonestBatch(OtherBatch(plan)))

\* The statement is written before the material is gathered.
HostMayFail == result = Pending /\ lapses = <<>> /\ replans + Len(false) < MaxHostFaults
MaterialMayFail == result = Pending /\ Len(lapses) < MaxLapses

Replan(new) ==
    /\ HostMayFail /\ false = <<>>
    /\ plan' = new
    /\ replans' = replans + 1
    /\ UNCHANGED <<false, lapses, result>>

Misstate(e) ==
    /\ false' = Append(false, e)
    /\ UNCHANGED <<plan, replans, lapses, result>>

Lapse(e) ==
    /\ lapses' = Append(lapses, e)
    /\ UNCHANGED <<plan, replans, false, result>>

(***************************************************************************)
(* Actions of the host.                                                    *)
(***************************************************************************)

\* A note is said to be worth one cell more, or less, than its cells hold.
RevalueNote(side, n, delta) ==
    Replan([plan EXCEPT ![side][n].value = @ + delta * plan.profile.cellValue])

MoveCell(side, k) ==
    Replan([plan EXCEPT ![side][k].note = 3 - @])

\* A cell whose opening, or whose public value, is not the profile's.
RevalueCell(side, k, field) ==
    Replan([plan EXCEPT ![side][k][field] = @ + 1])

ReuseExitKey == Replan([plan EXCEPT !.newCells[2].exit = plan.newCells[1].exit])
ReuseDescriptor == Replan([plan EXCEPT !.newNotes[2].kem = plan.newNotes[1].kem])
MalformExitKey == Replan([plan EXCEPT !.newCells[1].exit = -1])
MalformOwnerKey == Replan([plan EXCEPT !.notes[1].key = -1])

ChangeNetworkFee(delta) == Replan([plan EXCEPT !.networkFee = @ + delta * plan.profile.cellValue])
ChangeServiceFee == Replan([plan EXCEPT !.serviceFee = @ + plan.profile.cellValue])

AddCell ==
    LET k == Len(plan.newCells) + 1
    IN  /\ plan.newCells # <<>>
        /\ Replan([plan EXCEPT !.newCells = Append(@, [@[1] EXCEPT !.exit = 30 + k])])
DropCell(side) == plan[side] # <<>> /\ Replan([plan EXCEPT ![side] = Front(@)])

HostReplans ==
    \/ \E side \in {"notes", "newNotes"}, n \in 1 .. 2, delta \in {-1, 1} : RevalueNote(side, n, delta)
    \/ \E side \in {"cells", "newCells"} :
          \/ \E k \in {1, Len(plan[side])} : MoveCell(side, k)
          \/ \E field \in {"sats", "value"} : RevalueCell(side, 1, field)
          \/ DropCell(side)
    \/ ReuseExitKey \/ ReuseDescriptor \/ MalformExitKey \/ MalformOwnerKey
    \/ \E delta \in {-1, 1} : ChangeNetworkFee(delta)
    \/ ChangeServiceFee
    \/ AddCell

(***************************************************************************)
(* Actions of those who write the statement and supply the material.       *)
(***************************************************************************)

\* A graft from the next item is one only where the two differ.
Grafts(s, k) ==
    {<<f, "other">> : f \in DOMAIN s[k]}
    \cup {<<f, "this">> : f \in {g \in DOMAIN s[k] : s[NextItem(k, Len(s))][g] # s[k][g]}}

\* The first and the last item of a collection stand for the ones between.
EndItems(s) == {1, Len(s)} \cap DOMAIN s

MisstateTuple(c, k, f, from) ==
    Misstate([kind |-> "misstate-tuple", collection |-> c, item |-> k, field |-> f, from |-> from])
MisstateHash(f) == Misstate([kind |-> "misstate-hash", field |-> f])
MisstateNumber(f) == Misstate([kind |-> "misstate-number", field |-> f])
GraftMaterial(c, k, f, from) ==
    Lapse([kind |-> "graft", collection |-> c, item |-> k, field |-> f, from |-> from])
LoseMaterial(c, k) == Lapse([kind |-> "lose", collection |-> c, item |-> k])
RepeatMaterial(c, k) == Lapse([kind |-> "repeat", collection |-> c, item |-> k])
GraftTable(f) == Lapse([kind |-> "graft-table", field |-> f])
GraftExpected == Lapse([kind |-> "graft-expected"])

StatementGoesWrong ==
    /\ HostMayFail
    /\ \/ \E c \in Tuples : \E k \in EndItems(input.statement[c]) :
             \E g \in Grafts(input.statement[c], k) : MisstateTuple(c, k, g[1], g[2])
       \/ \E f \in HashFields : MisstateHash(f)
       \/ \E f \in NumberFields : MisstateNumber(f)

MaterialGoesWrong ==
    /\ MaterialMayFail
    /\ \/ \E c \in Collections : \E k \in EndItems(input[c]) :
             \/ \E g \in Grafts(input[c], k) : GraftMaterial(c, k, g[1], g[2])
             \/ LoseMaterial(c, k)
             \/ RepeatMaterial(c, k)
       \/ \E f \in DOMAIN input.table : GraftTable(f)
       \/ GraftExpected

Evaluate ==
    /\ result = Pending
    /\ \E i \in {input} : result' = PublicResult(i)
    /\ UNCHANGED <<plan, replans, false, lapses>>

Init ==
    /\ \E p \in Profiles, padding \in Paddings : plan = BasePlan(p, padding, 0)
    /\ replans = 0 /\ false = <<>> /\ lapses = <<>>
    /\ result = Pending

Next == HostReplans \/ StatementGoesWrong \/ MaterialGoesWrong \/ Evaluate

Spec == Init /\ [][Next]_vars

(***************************************************************************)
(* Properties.  They bind the input, so that TLC computes it once.         *)
(***************************************************************************)

\* The bounds on what goes wrong, and the booleans of the result against its verdict.
TypeOK ==
    /\ plan.profile \in Profiles /\ plan.padding \in Paddings
    /\ replans + Len(false) \in 0 .. MaxHostFaults
    /\ Len(lapses) \in 0 .. MaxLapses
    /\ result.reached \subseteq ReportedStages
    /\ "accepted" \in result.reached <=> result.verdict = Accepted

IsAccepted == result.verdict = Accepted
Worth(openings) == Sum(openings, LAMBDA x : x.value)

\* What a batch must be, said without the relation: uniform cells, every note
\* worth the cells it owns, fees paid by the cells that disappear, no key
\* used twice, no more money than there is.
PlanHonest ==
    LET p == plan.profile
        Backed(notes, cells) ==
            \A n \in DOMAIN notes :
                LET own == CellsOfNote(cells, n)
                IN  own # <<>> /\ notes[n].value = Sum(own, LAMBDA k : cells[k].value)
    IN  /\ \A c \in ToSet(plan.cells) \cup ToSet(plan.newCells) : c.sats = p.cellValue /\ c.value = p.cellValue
        /\ Len(plan.notes) >= p.minConsumedNotes
        /\ Len(plan.cells) >= p.minConsumedCells
        /\ Len(plan.newCells) \in p.minCreatedCells .. p.maxCreatedCells
        /\ Backed(plan.notes, plan.cells) /\ Backed(plan.newNotes, plan.newCells)
        /\ plan.networkFee > 0
        /\ plan.serviceFee = Len(plan.notes) * p.flatFee
        /\ Worth(plan.notes) = Worth(plan.newNotes) + plan.networkFee + plan.serviceFee
        /\ ~Overflows(Worth(Inputs(plan)))
        /\ \A n \in ToSet(plan.notes) : KeyParses(n.key)
        /\ \A c \in ToSet(plan.newCells) : KeyParses(c.exit)
        /\ Distinct([k \in DOMAIN plan.newCells |-> plan.newCells[k].exit])
        /\ Distinct([n \in DOMAIN plan.newNotes |-> plan.newNotes[n].kem])

\* The reader's order of indexes is the order of numbers below 256 (beyond, see
\* CodecStatementIsRead).
IndexesFitOneByte == InputIndex(plan, Len(plan.cells)) < 256

\* Completeness: what an honest host and honest parties put together is
\* accepted, whatever checks it has to pass.
HonestBatchIsAccepted ==
    (result # Pending /\ PlanHonest /\ IndexesFitOneByte /\ false = <<>> /\ lapses = <<>>) => IsAccepted

\* The lock of the fee output and of the boundary output is the host's own.
FreeOutput(o) == o.role \in {"aggregator-fee", "boundary"}
SameButFreeLocks(outputs, others) ==
    /\ DOMAIN outputs = DOMAIN others
    /\ \A k \in DOMAIN outputs :
            outputs[k] = IF FreeOutput(outputs[k])
                         THEN [others[k] EXCEPT !.lock = outputs[k].lock, !.slot = outputs[k].slot]
                         ELSE others[k]

\* Soundness: the relation accepts one proving input per batch, the honest
\* one, up to the locks the statement leaves to the host.  No field of the
\* statement or of any party's material can be lost, repeated, swapped or
\* taken from another batch without a verdict.
AcceptedBatchIsHonest ==
    IsAccepted =>
        /\ PlanHonest
        /\ \A i \in {input}, honest \in {HonestBatch(plan).statement} :
              /\ SameButFreeLocks(i.statement.outputs, honest.outputs)
              /\ i = Batch(plan, LAMBDA st : [st EXCEPT !.outputs = i.statement.outputs])

\* What the items of a collection say in these fields, in whatever order they come.
Contents(items, fields) == {[f \in fields |-> w[f]] : w \in ToSet(items)}

WitnessFields == {"statement", "id", "note", "bundle"}
ConsumedCellFields == {"statement", "id", "source", "index", "cell", "opening"}
CreatedCellFields == {"statement", "id", "index", "cell", "opening"}
ExitFields == {"statement", "index", "key"}
AuthorityFields == {"statement", "id", "note", "bundle", "key", "signature"}
NullifierFields == {"statement", "id", "note", "bundle", "key", "nullifier"}

\* What the evidence of a packet says; a descriptor is its network and its two keys.
EvidenceOf(w) ==
    <<w.statement, w.id, w.note, w.scope, w.packet,
      w.descriptor.network, w.descriptor.kem, w.descriptor.key, w.seed>>
TableOf(t) == <<t.statement, t.packets, t.hashes, t.bin, t.root>>

SameMaterial(i, other) ==
    /\ i.profile = other.profile /\ i.expected = other.expected
    /\ Contents(i.consumed, WitnessFields) = Contents(other.consumed, WitnessFields)
    /\ Contents(i.created, WitnessFields) = Contents(other.created, WitnessFields)
    /\ Contents(i.consumedCells, ConsumedCellFields) = Contents(other.consumedCells, ConsumedCellFields)
    /\ Contents(i.createdCells, CreatedCellFields) = Contents(other.createdCells, CreatedCellFields)
    /\ Contents(i.exits, ExitFields) = Contents(other.exits, ExitFields)
    /\ Contents(i.authorities, AuthorityFields) = Contents(other.authorities, AuthorityFields)
    /\ Contents(i.nullifiers, NullifierFields) = Contents(other.nullifiers, NullifierFields)
    /\ {EvidenceOf(w) : w \in ToSet(i.recovery)} = {EvidenceOf(w) : w \in ToSet(other.recovery)}
    /\ TableOf(i.table) = TableOf(other.table)

\* Once the honest statement is written, the material is no longer anybody's choice:
\* however much of it is lost, repeated, swapped or left over from another
\* batch, what is accepted is what every party would have supplied.
HonestStatementFixesMaterial ==
    (IsAccepted /\ PlanHonest /\ IndexesFitOneByte) =>
        \A i \in {input}, honest \in {HonestBatch(plan)} :
            i.statement = honest.statement => SameMaterial(i, honest)

\* The cells opened for the notes of a side are the public cells of the side,
\* each once, and every note is worth what its cells hold on chain.
SharesOut(notes, cells, tuples, projected) ==
    /\ Len(cells) = Len(tuples)
    /\ {cells[k].index : k \in DOMAIN cells} = {tuples[k].index : k \in DOMAIN tuples}
    /\ \A k \in DOMAIN cells : \E n \in DOMAIN notes : cells[k].id = notes[n].id
    /\ \A n \in DOMAIN notes :
            notes[n].note.value = Sum(AssignedTo(notes[n], cells), LAMBDA c : At(projected, c.index).value)

\* From the consumed-authority boolean on, a rejected result still vouches for
\* the money: both sides share out their public cells completely, and what
\* the notes lose is the two public fees.
ReachedAuthorityIsBacked ==
    "consumed-authority" \in result.reached =>
        \A i \in {input} :
            LET st == i.statement
            IN  /\ SharesOut(i.consumed, i.consumedCells, st.consumedCells, st.inputs)
                /\ SharesOut(i.created, i.createdCells, st.createdCells, st.outputs)
                /\ Sum(i.consumed, LAMBDA w : w.note.value)
                     = Sum(i.created, LAMBDA w : w.note.value) + st.networkFee + st.serviceFee

\* From the consumed-nullifier boolean on, the owner of every consumed note
\* has signed this statement and this note.
ReachedNullifierIsAuthorized ==
    "consumed-nullifier" \in result.reached =>
        \A i \in {input} :
            \A n \in DOMAIN i.statement.consumed :
                \E w \in ToSet(i.consumed), a \in ToSet(i.authorities) :
                    /\ w.id = i.statement.consumed[n].note
                    /\ w.note.owner = OwnerCommitment(a.key)
                    /\ a.signature = Signature(a.key, SpendMessage(StatementCommitment(i.statement), w.id, w.note.bundle))

\* The public fee equation and the partition of the cells leave the private
\* checks of sums nothing to find: no input is rejected by them.
PublicSumsSuffice == result.verdict.stage \notin {"private-value-arithmetic", "private-conservation"}

\* What the holder of a receive descriptor reads back from the carriers: the
\* packet for its kem key, and with the public outputs the bundle and note.
Recovered(st, packets, descriptor) ==
    LET mine == Kept(packets, {k \in DOMAIN packets : packets[k][2].kem = descriptor.kem})
        text == mine[1][2].plaintext
        bundle == [scope |-> text.scope,
                   members |-> [k \in DOMAIN text.members |->
                      [slot |-> text.members[k].slot, value |-> At(st.outputs, text.members[k].slot).value,
                       profile |-> PublicCell(st.createdCells, text.members[k].slot)[1].profile,
                       blinder |-> text.members[k].blinder]]]
    IN  NoteCommitment(MakeNote(Worth(bundle.members), descriptor.key, bundle, text.nonce))

\* After an accepted batch the holder of each descriptor that a sender used rebuilds,
\* from what the settlement publishes and its own descriptor alone, the created note
\* of the statement that the sender's packet is for, and no two of them the same one.
\* (That senders use the descriptors of the plan is a part of AcceptedBatchIsHonest.)
RecipientsCanRecover ==
    IsAccepted =>
        \A i \in {input} :
            LET st == i.statement
                packets == OfRole(st.outputs, "carrier")[1].lock[3][2]
            IN  /\ Len(i.recovery) = Len(st.created)
                /\ \A n \in DOMAIN st.created :
                        Recovered(st, packets, i.recovery[n].descriptor) = st.created[n].note

\* Every statement the TypeScript codec writes for an honest batch is read by
\* the Rust relation.
CodecStatementIsRead ==
    (result # Pending /\ PlanHonest /\ CodecWrites(input.statement)) => result.verdict # Malformed
=============================================================================
