----------------------------- MODULE LaneRoots -----------------------------
(***************************************************************************)
(* From notes to the public summary of a lane: a note's commitment becomes *)
(* a leaf, the leaves a note root, the roots a lane tuple, the tuple a     *)
(* lane root and that a master root (notes.ts, note_tree.ts, state.ts,     *)
(* apnt_lane_roots.ts).  The callers in between are not part of these      *)
(* files: they hand over what they hold, and may go on changing it while a *)
(* digest is awaited.                                                      *)
(***************************************************************************)
EXTENDS Digests, Integers, Sequences

CONSTANTS TreeDepth,     \* depth of the note tree
          LaneNotes,     \* private notes: asset, value, owner and nonce
          Epochs,        \* epochs of a lane tuple
          MaxLeafEdits   \* bound on leaves overwritten in the caller's memory

ASSUME LaneAssumption ==
    TreeDepth \in Nat /\ MaxLeafEdits \in Nat /\ Epochs \subseteq Nat

VARIABLES leaves,      \* the caller's snapshot of the tree
          rooting,     \* what noteTreeRootV0 has copied and digested
          noteRoot,    \* its last answer, with the snapshot it was called for
          lane,        \* lane root the caller holds
          master,      \* master root the caller holds
          hashing,     \* lane root handed to apntMasterRootHashV0, and its tuple's hash
          masterHash,  \* its last answer, with the tuple it was shown
          summary,     \* public input summary
          leafEdits

laneVars == <<leaves, rooting, noteRoot, lane, master, hashing, masterHash, summary, leafEdits>>

(***************************************************************************)
(* Commitments.                                                            *)
(***************************************************************************)

EmptyLeaf == Digest("no digest: zero bytes", [bytes |-> 32])
CapacityForDepth[depth \in 0..TreeDepth] ==
    IF depth = 0 THEN 1 ELSE 2 * CapacityForDepth[depth - 1]
Capacity == CapacityForDepth[TreeDepth]

NoteCommitment(note) ==
    Digest("private-note", [asset |-> note.asset, value |-> note.value,
                            owner |-> note.owner, nonce |-> note.nonce])
StateCellCommitment(state) ==
    Digest("state-cell", [network |-> state.network, batchCounter |-> state.batchCounter,
                          noteRoot |-> state.noteRoot, nullifierRoot |-> state.nullifierRoot,
                          packetRoot |-> state.packetRoot])

Parent(left, right) == Digest("note-tree-parent", [left |-> left, right |-> right])
Padded(notes) == [i \in 1..Capacity |-> IF i <= Len(notes) THEN notes[i] ELSE EmptyLeaf]

\* A lane tuple is normalised for lane 0 only.
IsLaneTuple(tuple) == tuple.lane = 0 /\ tuple.epoch \in Nat /\ tuple.profile # ""
LaneRootHash(tuple) == Digest("lane-root", tuple)
BuiltLane(tuple) == [tuple |-> tuple, laneRoot |-> LaneRootHash(tuple)]
\* The set a master root is the hash of names lanes by id and root only.
MasterRootSet(laneRoot) == [laneCount |-> 1, lanes |-> <<[lane |-> 0, laneRoot |-> laneRoot]>>]
MasterRootHash(laneRoot) == Digest("master-root", MasterRootSet(laneRoot))
BuiltMaster(tuple) ==
    [laneCount |-> 1, lanes |-> <<BuiltLane(tuple)>>,
     masterRoot |-> MasterRootHash(LaneRootHash(tuple))]

(***************************************************************************)
(* What the callers hand over: a tuple about the last note root, of the    *)
(* state cell that had it.                                                 *)
(***************************************************************************)

LaneTuple(root, epoch) ==
    [network |-> "chipnet", profile |-> "verifier", lane |-> 0, epoch |-> epoch,
     noteRoot |-> root, nullifierRoot |-> "nullifiers", packetRoot |-> "packets",
     accountingRoot |-> "accounting",
     previousStateCell |-> StateCellCommitment(
         [network |-> "chipnet", noteRoot |-> root, nullifierRoot |-> "nullifiers",
          packetRoot |-> "packets", batchCounter |-> epoch])]
\* Lane roots of the builder, and one whose tuple and root belong to different epochs.
LaneRootsShown(root) ==
    {[tuple |-> LaneTuple(root, epoch), laneRoot |-> LaneRootHash(LaneTuple(root, claimed))] :
        epoch \in Epochs, claimed \in Epochs}

(***************************************************************************)
(* Steps.                                                                  *)
(***************************************************************************)

LaneInit ==
    /\ leaves = <<>> /\ leafEdits = 0 /\ rooting = None /\ noteRoot = None
    /\ lane = None /\ master = None /\ hashing = None /\ masterHash = None /\ summary = None

AppendNote(note) ==
    /\ Len(leaves) < Capacity
    /\ leaves' = Append(leaves, NoteCommitment(note))
    /\ UNCHANGED <<rooting, noteRoot, lane, master, hashing, masterHash, summary, leafEdits>>

OverwriteLeaf(index, note) ==
    /\ rooting # None /\ leafEdits < MaxLeafEdits
    /\ leaves' = [leaves EXCEPT ![index] = NoteCommitment(note)]
    /\ leafEdits' = leafEdits + 1
    /\ UNCHANGED <<rooting, noteRoot, lane, master, hashing, masterHash, summary>>

\* The leaves are copied before the first digest; without a level above them there
\* is none to wait for.
BeginRoot ==
    /\ rooting = None
    /\ IF TreeDepth = 0
       THEN /\ noteRoot' = [root |-> Padded(leaves)[1], of |-> leaves]
            /\ UNCHANGED rooting
       ELSE /\ rooting' = [level |-> Padded(leaves), parents |-> <<>>, of |-> leaves]
            /\ UNCHANGED noteRoot
    /\ UNCHANGED <<leaves, lane, master, hashing, masterHash, summary, leafEdits>>

\* One parent is digested; after the last of a level the level above takes over.
DigestParent ==
    /\ rooting # None
    /\ LET level == rooting.level
           index == 2 * Len(rooting.parents)
           parents == Append(rooting.parents, Parent(level[index + 1], level[index + 2]))
       IN  \/ /\ 2 * Len(parents) < Len(level)
              /\ rooting' = [rooting EXCEPT !.parents = parents]
              /\ UNCHANGED noteRoot
           \/ /\ 2 * Len(parents) = Len(level) /\ Len(parents) > 1
              /\ rooting' = [rooting EXCEPT !.level = parents, !.parents = <<>>]
              /\ UNCHANGED noteRoot
           \/ /\ 2 * Len(parents) = Len(level) /\ Len(parents) = 1
              /\ noteRoot' = [root |-> parents[1], of |-> rooting.of]
              /\ rooting' = None
    /\ UNCHANGED <<leaves, lane, master, hashing, masterHash, summary, leafEdits>>

\* Both builders copy their tuple before they wait, and answer for the copy.
BuildLaneRoot(tuple) ==
    /\ IsLaneTuple(tuple)
    /\ lane' = BuiltLane(tuple)
    /\ UNCHANGED <<leaves, rooting, noteRoot, master, hashing, masterHash, summary, leafEdits>>

BuildMasterRoot(tuple) ==
    /\ IsLaneTuple(tuple)
    /\ master' = BuiltMaster(tuple)
    /\ UNCHANGED <<leaves, rooting, noteRoot, lane, hashing, masterHash, summary, leafEdits>>

\* apntMasterRootHashV0 awaits the hash of the tuple it is shown ...
BeginMasterHash(laneRoot) ==
    /\ hashing = None
    /\ IsLaneTuple(laneRoot.tuple)
    /\ hashing' = [arguments |-> laneRoot, expected |-> LaneRootHash(laneRoot.tuple),
                   shown |-> laneRoot.tuple]
    /\ UNCHANGED <<leaves, rooting, noteRoot, lane, master, masterHash, summary, leafEdits>>

\* ... while its caller may put another lane root into the arguments ...
ReplaceArguments(laneRoot) ==
    /\ hashing # None /\ leafEdits < MaxLeafEdits
    /\ hashing' = [hashing EXCEPT !.arguments = laneRoot] /\ leafEdits' = leafEdits + 1
    /\ UNCHANGED <<leaves, rooting, noteRoot, lane, master, masterHash, summary>>

\* Mutant: ... takes the lane root of the arguments as it is.
FinishMasterHashUnchecked ==
    /\ hashing # None
    /\ masterHash' = [hash |-> MasterRootHash(hashing.arguments.laneRoot), shown |-> hashing.shown]
    /\ hashing' = None
    /\ UNCHANGED <<leaves, rooting, noteRoot, lane, master, summary, leafEdits>>

\* ... reads the lane root of the arguments and throws unless it is that hash.
FinishMasterHash ==
    /\ hashing # None
    /\ masterHash' = IF hashing.arguments.laneRoot = hashing.expected
                     THEN [hash |-> MasterRootHash(hashing.arguments.laneRoot),
                           shown |-> hashing.shown]
                     ELSE None
    /\ hashing' = None
    /\ UNCHANGED <<leaves, rooting, noteRoot, lane, master, summary, leafEdits>>

\* The summary compares the two lane roots and recomputes no hash.
Summarise ==
    /\ lane # None /\ master # None
    /\ master.lanes[1].laneRoot = lane.laneRoot
    /\ summary' = [tuple |-> lane.tuple, laneRoot |-> lane.laneRoot,
                   masterRoot |-> master.masterRoot]
    /\ UNCHANGED <<leaves, rooting, noteRoot, lane, master, hashing, masterHash, leafEdits>>

\* A caller works on its tree, then on the lane of the root it got: the one does not
\* read what the other writes.
NoLane == lane = None /\ master = None
NoHash == hashing = None /\ masterHash = None
LaneNext ==
    /\ summary = None
    /\ \/ /\ NoLane /\ NoHash
          /\ \/ \E note \in LaneNotes : AppendNote(note)
             \/ \E index \in DOMAIN leaves, note \in LaneNotes : OverwriteLeaf(index, note)
             \/ BeginRoot
             \/ DigestParent
       \/ /\ noteRoot # None /\ rooting = None
          /\ \/ /\ NoHash
                /\ \/ \E epoch \in Epochs : BuildLaneRoot(LaneTuple(noteRoot.root, epoch))
                   \/ \E epoch \in Epochs : BuildMasterRoot(LaneTuple(noteRoot.root, epoch))
                   \/ Summarise
             \/ /\ NoLane
                /\ \/ \E laneRoot \in LaneRootsShown(noteRoot.root) :
                          BeginMasterHash(laneRoot) \/ ReplaceArguments(laneRoot)
                   \/ FinishMasterHash

LaneSpec == LaneInit /\ [][LaneNext]_laneVars

(***************************************************************************)
(* Properties.                                                             *)
(***************************************************************************)

\* The reference: the top of a full binary tree over the leaves and their padding.
TreeLevels(notes) ==
    LET nodes[height \in 0..TreeDepth] ==
            [position \in 1..CapacityForDepth[TreeDepth - height] |->
                IF height = 0 THEN Padded(notes)[position]
                ELSE Parent(nodes[height - 1][2 * position - 1], nodes[height - 1][2 * position])]
    IN  nodes
ReferenceRoot(notes) == TreeLevels(notes)[TreeDepth][1]

\* noteTreeRootV0 answers with the root of the snapshot it was called with, all of
\* it and nothing else, whatever its caller appends or overwrites between two of
\* its digests.
NoteRootIsOneSnapshot == noteRoot # None => noteRoot.root = ReferenceRoot(noteRoot.of)

\* A summary and a master hash stand for a tuple that was shown: the summary's
\* master root commits to the lane root of the very tuple it prints, and
\* apntMasterRootHashV0 never commits to a lane root put into its arguments while
\* it waited, unless that is the one of the tuple it was called with.
MasterRootIsBacked ==
    /\ summary # None =>
          summary.masterRoot.content.lanes[1].laneRoot.content = summary.tuple
    /\ masterHash # None =>
          masterHash.hash.content.lanes[1].laneRoot.content = masterHash.shown

\* Both at once: from the notes of a tree to the master root, no root stands for
\* leaves or a tuple that its caller did not show (note_tree.ts, apnt_lane_roots.ts).
RootsAreBacked == NoteRootIsOneSnapshot /\ MasterRootIsBacked
=============================================================================
