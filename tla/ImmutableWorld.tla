--------------------------- MODULE ImmutableWorld ---------------------------
(***************************************************************************)
(* ImmutableWorldState of src/immutable_world.cpp: the bodies of a world   *)
(* in chunks, the chunks at the leaves of a binary tree whose nodes are    *)
(* never changed and carry the hash of what is below them.  An update      *)
(* makes new nodes on the paths to the chunks it rewrites and shares the   *)
(* others with the world before.                                           *)
(*                                                                         *)
(* A node is its level and its first leaf.  A world is                     *)
(*   chunks   chunk index -> the bodies of the chunk                       *)
(*   hash     node -> the hash it caches                                   *)
(* and a hash is the value it is computed from, so that it never collides. *)
(***************************************************************************)
EXTENDS Snapshots, FiniteSetsExt

CONSTANT ChunkSize   \* chunk_size, not zero

ChunkOf(body) == body \div ChunkSize

Chunks == {ChunkOf(body) : body \in Bodies}

\* tree_leaf_capacity: the first power of two that is no less than the
\* number of chunks
Depth == CHOOSE d \in 0..BodyCount :
           /\ \A chunk \in Chunks : chunk < 2 ^ d
           /\ \A e \in 0..(d - 1) : \E chunk \in Chunks : chunk >= 2 ^ e

Nodes == {node \in (0..Depth) \X (0..(2 ^ Depth - 1)) :
            node[2] % 2 ^ node[1] = 0}

Leaves(node) == node[2]..(node[2] + 2 ^ node[1] - 1)

Left(node) == <<node[1] - 1, node[2]>>

Right(node) == <<node[1] - 1, node[2] + 2 ^ (node[1] - 1)>>

\* make_chunk
ChunkFrom(world, chunk) ==
  [body \in {b \in Bodies : ChunkOf(b) = chunk} |-> world[body]]

\* hash_chunk and hash_empty_leaf
HashLeaf(chunks, index) ==
  IF index \in DOMAIN chunks THEN <<"leaf", index, chunks[index]>>
  ELSE <<"empty", index>>

\* hash_internal
HashInternal(node, left, right) ==
  <<"internal", node[2], node[2] + 2 ^ node[1], left, right>>

\* The hashes of a tree in which only the paths to the leaves in changed are
\* made anew; the nodes off these paths are shared with the tree before.
Rehashed(before, chunks, changed) ==
  LET hash[node \in Nodes] ==
        IF Leaves(node) \cap changed = {} THEN before[node]
        ELSE IF node[1] = 0 THEN HashLeaf(chunks, node[2])
        ELSE HashInternal(node, hash[Left(node)], hash[Right(node)])
  IN hash

\* make_immutable_world and build_tree
MakeImmutableWorld(world) ==
  LET chunks == [chunk \in Chunks |-> ChunkFrom(world, chunk)]
  IN  [chunks |-> chunks,
       hash |-> Rehashed(Nothing, chunks, 0..(2 ^ Depth - 1))]

\* materialize
Materialize(tree) == [body \in Bodies |-> tree.chunks[ChunkOf(body)][body]]

\* A mutant: the new leaf is hung below the old nodes.
ReplaceChunkOldPath(tree, index, chunk) ==
  LET chunks == [tree.chunks EXCEPT ![index] = chunk]
  IN  [chunks |-> chunks,
       hash |-> [tree.hash EXCEPT ![<<0, index>>] = HashLeaf(chunks, index)]]

\* replace_chunk
ReplaceChunk(tree, index, chunk) ==
  LET chunks == [tree.chunks EXCEPT ![index] = chunk]
  IN  [chunks |-> chunks, hash |-> Rehashed(tree.hash, chunks, {index})]

\* step_immutable: the chunks with a body that changes are copied and
\* replaced one after the other.
StepImmutable(tree, world) ==
  LET changed == {ChunkOf(body) : body \in
                    BodiesOf(Difference(Materialize(tree), world))}
      replace(index, t) == ReplaceChunk(t, index, ChunkFrom(world, index))
  IN  FoldSet(replace, tree, changed)

\* apply_immutable_updates: the chunks of the updated bodies are copied,
\* overwritten, and replaced all at once by replace_chunks_batch.
ApplyImmutableUpdates(tree, patch) ==
  LET chunks == [chunk \in Chunks |->
                   [body \in DOMAIN tree.chunks[chunk] |->
                      IF body \in DOMAIN patch THEN patch[body]
                      ELSE tree.chunks[chunk][body]]]
      changed == {ChunkOf(body) : body \in DOMAIN patch}
  IN  [chunks |-> chunks, hash |-> Rehashed(tree.hash, chunks, changed)]

=============================================================================
