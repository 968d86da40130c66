--------------------------- MODULE XmssTraversal ---------------------------
(***************************************************************************)
(* The tree traversal of XMSS and XMSS^MT in liboqs (xmss_core_fast.c):    *)
(* what one call of sign changes in the BDS states kept in the secret key, *)
(* and what the verifier makes of each signature.                          *)
(*                                                                         *)
(* A hash value is the place it belongs to, <<layer, tree, height, index>>;*)
(* hashing two values gives their parent if they are the two children of   *)
(* the place the address names, and NoNode, a value that verifies nowhere, *)
(* otherwise. bds_k is 0, as in every parameter set of params.c.           *)
(***************************************************************************)
EXTENDS Integers, Sequences, SequencesExt

CONSTANT Params     \* pairs <<tree_height, d>>

ASSUME ParamsAssumption == Params \subseteq (3 .. 20) \X (1 .. 12)

VARIABLES tree_height, d,  \* the parameter set, fixed
          idx,             \* the index in the secret key
          states,          \* 2d - 1 BDS states: one per layer, then NEXT
          wots_sigs,       \* layer -> signature of the root of the tree below
          sm               \* the signature made last
vars == <<tree_height, d, idx, states, wots_sigs, sm>>

Node(layer, tree, h, i) == <<layer, tree, h, i>>
NoNode == <<>>
Leaf(layer, tree, i) == Node(layer, tree, 0, i)

Levels == 0 .. tree_height - 1
Leaves == 2 ^ tree_height
FullLeaves == 2 ^ (tree_height * d)
Bit(n, i) == (n \div 2 ^ i) % 2

(* thash_h at the address of the parent of height h + 1 and index j.       *)
thash_h(left, right, a, h, j) ==
  IF left = Node(a.layer, a.tree, h, 2 * j) /\ right = Node(a.layer, a.tree, h, 2 * j + 1)
  THEN Node(a.layer, a.tree, h + 1, j)
  ELSE NoNode

Addr(layer, tree) == [layer |-> layer, tree |-> tree]

-----------------------------------------------------------------------------
(* One BDS state. The stack holds the nodes up to stackoffset with their   *)
(* levels; peak is the highest slot of it written so far.                  *)
EmptyState ==
  [stack |-> <<>>, peak |-> 0,
   auth |-> [i \in Levels |-> NoNode],
   keep |-> [i \in 0 .. (tree_height \div 2) - 1 |-> NoNode],
   treehash |-> [i \in Levels |-> [next_idx |-> 0, stackusage |-> 0,
                                  completed |-> FALSE, node |-> NoNode]],
   next_leaf |-> 0]

Slot(node, level) == [node |-> node, level |-> level]
Larger(a, b) == IF a > b THEN a ELSE b
Push(s, node, level) ==
  [s EXCEPT !.stack = Append(@, Slot(node, level)),
            !.peak = Larger(@, Len(s.stack) + 1)]

(* The right child of a merge goes to the first authentication path or to  *)
(* the treehash instance that starts with it.                              *)
Keep(s, leaf, level, node) ==
  IF leaf \div 2 ^ level = 1 THEN [s EXCEPT !.auth[level] = node]
  ELSE IF leaf \div 2 ^ level = 3 /\ level < tree_height
       THEN [s EXCEPT !.treehash[level].node = node]
       ELSE s

Merge(s, leaf, a) ==
  LET n      == Len(s.stack)
      level  == s.stack[n].level
      parent == thash_h(s.stack[n - 1].node, s.stack[n].node, a, level,
                        leaf \div 2 ^ (level + 1))
  IN  [Keep(s, leaf, level, s.stack[n].node) EXCEPT
         !.stack = Append(SubSeq(@, 1, n - 2), Slot(parent, level + 1))]

CanMerge(s) ==
  LET n == Len(s.stack) IN n > 1 /\ s.stack[n].level = s.stack[n - 1].level

(* While the two nodes on top have one level: each turn takes a node off.  *)
MergeTop(s, leaf, a) ==
  FoldLeft(LAMBDA t, slot : IF CanMerge(t) THEN Merge(t, leaf, a) ELSE t, s, s.stack)

AddLeaf(s, leaf, a) == MergeTop(Push(s, Leaf(a.layer, a.tree, leaf), 0), leaf, a)

(* One more leaf of the next tree, unless it is complete.                  *)
bds_state_update(s, a) ==
  IF s.next_leaf = Leaves THEN s
  ELSE [AddLeaf(s, s.next_leaf, a) EXCEPT !.next_leaf = @ + 1]

(* The whole tree at once, on a stack of its own.                          *)
Grow(s, a) ==
  FoldLeft(LAMBDA t, i : bds_state_update(t, a), s, [i \in 1 .. Leaves |-> i])

treehash_init(s, a) ==
  LET built == Grow(s, a)
  IN  [state |-> [s EXCEPT !.auth = built.auth,
                    !.treehash = [i \in Levels |->
                       [built.treehash[i] EXCEPT !.completed = TRUE]]],
       root  |-> built.stack[1].node]

-----------------------------------------------------------------------------
(* Treehash instances share the stack of their state.                      *)
treehash_minheight_on_stack(s, th) ==
  LET n == Len(s.stack)
      used == {s.stack[n - i].level : i \in 0 .. th.stackusage - 1}
  IN  CHOOSE m \in used \cup {tree_height} : \A u \in used : m <= u

(* c is the node in hand, its height and the state so far.                 *)
CanClimb(c, level) ==
  c.state.treehash[level].stackusage > 0 /\ Last(c.state.stack).level = c.height

Climb(c, level, a) ==
  [state  |-> [c.state EXCEPT !.stack = Front(@), !.treehash[level].stackusage = @ - 1],
   node   |-> thash_h(Last(c.state.stack).node, c.node, a, c.height,
                      c.state.treehash[level].next_idx \div 2 ^ (c.height + 1)),
   height |-> c.height + 1]

Climbed(s, level, a) ==
  FoldLeft(LAMBDA c, slot : IF CanClimb(c, level) THEN Climb(c, level, a) ELSE c,
           [state  |-> s, height |-> 0,
            node   |-> Leaf(a.layer, a.tree, s.treehash[level].next_idx)],
           s.stack)

treehash_update(s, level, a) ==
  LET top  == Climbed(s, level, a)
      inst == top.state.treehash[level]
  IN  IF top.height = level
      THEN [top.state EXCEPT !.treehash[level] =
                               [inst EXCEPT !.node = top.node, !.completed = TRUE]]
      ELSE Push([top.state EXCEPT !.treehash[level] =
                                    [inst EXCEPT !.stackusage = @ + 1, !.next_idx = @ + 1]],
                top.node, top.height)

(* The instance that needs an update most: lowest tail node, then lowest   *)
(* level.                                                                  *)
Need(s, i) ==
  IF s.treehash[i].completed THEN tree_height
  ELSE IF s.treehash[i].stackusage = 0 THEN i
  ELSE treehash_minheight_on_stack(s, s.treehash[i])

Waiting(s) == {i \in Levels : Need(s, i) < tree_height}
Neediest(s) ==
  CHOOSE i \in Waiting(s) :
    \A j \in Waiting(s) : Need(s, i) < Need(s, j) \/ (Need(s, i) = Need(s, j) /\ i <= j)

UpdateOne(k, a) ==
  IF Waiting(k.state) = {} THEN k
  ELSE [state |-> treehash_update(k.state, Neediest(k.state), a), left |-> k.left - 1]

(* updates is unsigned and wraps: a negative budget is a huge one, more    *)
(* than the instances, which wait for less than the leaves of one tree.    *)
bds_treehash_update(s, updates, a) ==
  FoldLeft(LAMBDA k, j : UpdateOne(k, a), [state |-> s, left |-> updates],
           [j \in 1 .. (IF updates < 0 THEN Leaves ELSE updates) |-> j])

(* The authentication path of the leaf after leaf_idx.                     *)
Tau(leaf_idx) ==
  CHOOSE t \in 0 .. tree_height :
    /\ \A i \in 0 .. t - 1 : Bit(leaf_idx, i) = 1
    /\ t < tree_height => Bit(leaf_idx, t) = 0

KeepNode(s, leaf_idx, tau) ==
  IF Bit(leaf_idx, tau + 1) = 0 /\ tau < tree_height - 1
  THEN [s.keep EXCEPT ![tau \div 2] = s.auth[tau]]
  ELSE s.keep

NextAuth(s, leaf_idx, tau, a) ==
  [i \in Levels |->
     IF i < tau THEN s.treehash[i].node
     ELSE IF i > tau THEN s.auth[i]
     ELSE IF tau = 0 THEN Leaf(a.layer, a.tree, leaf_idx)
     ELSE thash_h(s.auth[tau - 1], s.keep[(tau - 1) \div 2], a, tau - 1,
                  leaf_idx \div 2 ^ tau)]

(* Fault: a treehash instance starts one subtree too early.                *)
StartIdxEarly(leaf_idx, i) == leaf_idx + 1 + 2 * 2 ^ i

StartIdx(leaf_idx, i) == leaf_idx + 1 + 3 * 2 ^ i

(* Fault: instances are restarted beyond the last leaf.                    *)
RestartedBeyond(s, leaf_idx, tau) ==
  [i \in Levels |->
     IF i < tau THEN [s.treehash[i] EXCEPT !.next_idx = StartIdx(leaf_idx, i),
                                          !.completed = FALSE, !.stackusage = 0]
     ELSE s.treehash[i]]

Restarted(s, leaf_idx, tau) ==
  [i \in Levels |->
     IF i < tau /\ StartIdx(leaf_idx, i) < Leaves
     THEN [s.treehash[i] EXCEPT !.next_idx = StartIdx(leaf_idx, i),
                               !.completed = FALSE, !.stackusage = 0]
     ELSE s.treehash[i]]

bds_round(s, leaf_idx, a) ==
  LET tau == Tau(leaf_idx)
  IN  [s EXCEPT !.auth = NextAuth(s, leaf_idx, tau, a),
                !.keep = KeepNode(s, leaf_idx, tau),
                !.treehash = Restarted(s, leaf_idx, tau)]

-----------------------------------------------------------------------------
(* A WOTS signature: the one-time key, a leaf of some tree, and the value. *)
wots_sign(value, a, leaf) == [key |-> Leaf(a.layer, a.tree, leaf), value |-> value]
Message == <<"message">>

(* xmss_core_keypair and xmssmt_core_keypair: the first tree of each layer *)
(* and the signatures of the roots below.                                  *)
FirstTrees == [i \in 0 .. d - 1 |-> treehash_init(EmptyState, Addr(i, 0))]

Init ==
  /\ \E p \in Params : tree_height = p[1] /\ d = p[2]
  /\ idx = 0
  /\ states = [i \in 0 .. 2 * d - 2 |-> IF i < d THEN FirstTrees[i].state ELSE EmptyState]
  /\ wots_sigs = [i \in 0 .. d - 2 |-> wots_sign(FirstTrees[i].root, Addr(i + 1, 0), 0)]
  /\ sm = <<>>

PublicRoot == Node(d - 1, 0, tree_height, 0)

(* The index of layer i's leaf and tree behind signature idx.              *)
LeafAt(i) == (idx \div 2 ^ (tree_height * i)) % Leaves
TreeAt(i) == idx \div 2 ^ (tree_height * (i + 1))

(* The signature is taken from the states before they are moved on.        *)
Signature ==
  [i \in 0 .. d - 1 |->
     [wots |-> IF i = 0 THEN wots_sign(Message, Addr(0, TreeAt(0)), LeafAt(0))
               ELSE wots_sigs[i - 1],
      auth |-> states[i].auth]]

LastIndex == FullLeaves - 1

(* XMSS: one tree, one state.                                              *)
xmss_core_sign ==
  /\ d = 1
  /\ idx < LastIndex
  /\ sm' = [idx |-> idx, layers |-> Signature]
  /\ states' = [states EXCEPT ![0] =
       bds_treehash_update(bds_round(@, idx, Addr(0, 0)), tree_height \div 2,
                           Addr(0, 0)).state]
  /\ idx' = idx + 1
  /\ UNCHANGED <<tree_height, d, wots_sigs>>

(* Fault: the state that becomes NEXT keeps what is on its stack.          *)
SwapInFullStack(k, i) ==
  LET new == k.states[d + i]
      all == [new EXCEPT !.treehash = [j \in Levels |-> [@[j] EXCEPT !.completed = TRUE]]]
  IN  [states  |-> [k.states EXCEPT ![i] = all, ![d + i] = [k.states[i] EXCEPT !.next_leaf = 0]],
       wots    |-> [k.wots EXCEPT ![i] =
                      wots_sign(Node(i, TreeAt(i) + 1, tree_height, 0),
                                Addr(i + 1, (idx + 1) \div 2 ^ ((i + 2) * tree_height)),
                                ((idx \div 2 ^ ((i + 1) * tree_height)) + 1) % Leaves)],
       updates |-> k.updates - 1,
       swapped |-> i]

(* deep_state_swap: layer i goes on with its NEXT state, whose complete    *)
(* tree's root is signed on the layer above.                               *)
SwapIn(k, i) ==
  LET new == k.states[d + i]
      all == [new EXCEPT !.treehash = [j \in Levels |-> [@[j] EXCEPT !.completed = TRUE]]]
      old == [k.states[i] EXCEPT !.stack = <<>>, !.next_leaf = 0]
  IN  [states  |-> [k.states EXCEPT ![i] = all, ![d + i] = old],
       wots    |-> [k.wots EXCEPT ![i] =
                      wots_sign(IF new.stack = <<>> THEN NoNode ELSE new.stack[1].node,
                                Addr(i + 1, (idx + 1) \div 2 ^ ((i + 2) * tree_height)),
                                ((idx \div 2 ^ ((i + 1) * tree_height)) + 1) % Leaves)],
       updates |-> k.updates - 1,
       swapped |-> i]

(* Layer i within a tree: the path moves if the layer below was swapped,   *)
(* then the treehash instances and the NEXT tree share what is left of     *)
(* the updates. A NEXT tree that is complete takes one too: its next_leaf  *)
(* is compared with the leaves of the whole key.                           *)
NextTreeExists(i) ==
  (1 + TreeAt(i)) * Leaves + LeafAt(i) < 2 ^ (tree_height * (d - i))

Advance(k, i) ==
  LET a == Addr(i, TreeAt(i))
      moved == IF i = k.swapped + 1 THEN bds_round(k.states[i], LeafAt(i), a)
               ELSE k.states[i]
      done == bds_treehash_update(moved, k.updates, a)
      grow == /\ NextTreeExists(i) /\ i > 0 /\ done.left # 0
              /\ k.states[d + i].next_leaf < FullLeaves
  IN  [states  |-> [j \in DOMAIN k.states |->
                      IF j = i THEN done.state
                      ELSE IF j = d + i /\ grow
                           THEN bds_state_update(k.states[j], Addr(i, TreeAt(i) + 1))
                           ELSE k.states[j]],
       wots    |-> k.wots,
       updates |-> IF grow THEN done.left - 1 ELSE done.left,
       swapped |-> k.swapped]

EndOfTree(i) == (idx + 1) % 2 ^ ((i + 1) * tree_height) = 0

(* Fault: the bottom layer waits for a spare update like the others.       *)
MandatoryUpdateSkipped == states

(* XMSS^MT: the NEXT tree of the bottom layer always grows by one leaf.    *)
MandatoryUpdate ==
  IF NextTreeExists(0)
  THEN [states EXCEPT ![d] = bds_state_update(@, Addr(0, TreeAt(0) + 1))]
  ELSE states

xmssmt_core_sign ==
  /\ d > 1
  /\ idx < LastIndex
  /\ sm' = [idx |-> idx, layers |-> Signature]
  /\ LET start == [states |-> MandatoryUpdate, wots |-> wots_sigs,
                   updates |-> tree_height \div 2, swapped |-> -1]
         end == FoldLeft(LAMBDA k, j : IF EndOfTree(j - 1) THEN SwapIn(k, j - 1)
                                       ELSE Advance(k, j - 1),
                         start, [j \in 1 .. d |-> j])
     IN  states' = end.states /\ wots_sigs' = end.wots
  /\ idx' = idx + 1
  /\ UNCHANGED <<tree_height, d>>

Next == xmss_core_sign \/ xmssmt_core_sign

Spec == Init /\ [][Next]_vars

-----------------------------------------------------------------------------
(* The verifier: the root that an authentication path leads to.            *)
compute_root(leaf, leafidx, auth, a) ==
  LET up(node, i) == LET j == leafidx \div 2 ^ (i + 1)
                     IN  IF Bit(leafidx, i) = 1 THEN thash_h(auth[i], node, a, i, j)
                         ELSE thash_h(node, auth[i], a, i, j)
  IN  FoldLeft(LAMBDA node, i : up(node, i - 1), leaf, [i \in 1 .. tree_height |-> i])

(* The leaf a WOTS signature leads to, when it signs the value.            *)
wots_pk_from_sig(w, value, place) ==
  IF w.value = value /\ w.key = place THEN place ELSE NoNode

xmssmt_core_sign_open(s) ==
  LET layer(value, i) ==
        LET leafidx == (s.idx \div 2 ^ (tree_height * i)) % Leaves
            tree    == s.idx \div 2 ^ (tree_height * (i + 1))
            leaf    == wots_pk_from_sig(s.layers[i].wots, value, Leaf(i, tree, leafidx))
        IN  compute_root(leaf, leafidx, s.layers[i].auth, Addr(i, tree))
  IN  FoldLeft(LAMBDA value, i : layer(value, i - 1), Message, [i \in 1 .. d |-> i])
        = PublicRoot

-----------------------------------------------------------------------------
NodeType(n) ==
  n = NoNode \/ (/\ Len(n) = 4
                 /\ n[1] \in 0 .. d - 1 /\ n[2] \in 0 .. 2 ^ (tree_height * (d - 1))
                 /\ n[3] \in 0 .. tree_height /\ n[4] \in 0 .. Leaves - 1)
StateType(s) ==
  /\ \A i \in DOMAIN s.stack : NodeType(s.stack[i].node) /\ s.stack[i].level \in 0 .. tree_height
  /\ \A i \in Levels : /\ NodeType(s.auth[i]) /\ NodeType(s.treehash[i].node)
                        /\ s.treehash[i].next_idx \in 0 .. Leaves - 1
                        /\ s.treehash[i].stackusage \in 0 .. tree_height
  /\ s.next_leaf \in 0 .. Leaves
TypeOK ==
  /\ <<tree_height, d>> \in Params
  /\ idx \in 0 .. LastIndex
  /\ DOMAIN states = 0 .. 2 * d - 2
  /\ \A i \in DOMAIN states : StateType(states[i])

(* Every signature before the last index leads the verifier to the public  *)
(* root: each path was finished, on every layer, before it was needed.     *)
SignaturesVerify == sm # <<>> => xmssmt_core_sign_open(sm)

(* The one-time keys of the upper layers sign the root of the tree below   *)
(* them that is in use, and nothing else: a NEXT tree is complete when it  *)
(* is swapped in, so no key ever signs two values.                         *)
UpperKeysSignRoots ==
  \A i \in 0 .. d - 2 :
    wots_sigs[i] = wots_sign(Node(i, TreeAt(i), tree_height, 0),
                             Addr(i + 1, TreeAt(i + 1)), LeafAt(i + 1))

(* The nodes that treehash instances and a growing tree push never exceed  *)
(* the tree_height + 1 slots the secret key has for a stack.               *)
StackStaysInBounds ==
  \A i \in DOMAIN states :
    states[i].peak <= tree_height + 1 /\ Len(states[i].stack) <= tree_height + 1
=============================================================================
