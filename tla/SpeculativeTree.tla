--------------------------- MODULE SpeculativeTree ---------------------------
(***************************************************************************)
(* Trees of drafted tokens: SpeculativeTree and the tree methods of        *)
(* DraftModel and TargetModel (speculative.rs), TreeDraftModel             *)
(* (backend.rs) and the top-k choice of sampling.rs.  No loop of the crate *)
(* uses them; a caller builds a tree node by node or has it drafted, has   *)
(* it verified, and asks for the best path.                                *)
(*                                                                         *)
(* A tree is a sequence of nodes; the parent of a node is its place, and   *)
(* NoParent for the root.                                                  *)
(***************************************************************************)
EXTENDS Naturals, Sequences, SequencesExt

CONSTANTS
    TreeTokens,      \* the vocabulary, from 0
    DraftScores(_),  \* the draft model's logits after a text, by token
    TargetToken(_),  \* the token the target model chooses after a text
    TreeContext,     \* the text before the tree
    DraftLengths,    \* max_tokens of a draft
    DraftWidths,     \* width of a draft
    MaxNodes         \* bound: nodes of a tree that a caller builds

ASSUME TreeAssumption ==
    /\ IsFiniteSet(TreeTokens)
    /\ DraftLengths \subseteq Nat /\ DraftWidths \subseteq Nat /\ MaxNodes \in Nat

VARIABLES
    treePc,          \* "start", "tree", "verified", "chosen" or "failed"
    tree,
    expected,        \* TreeVerifyResult: a token for every node
    best             \* the path and the token find_best_path returned

treeVars == <<treePc, tree, expected, best>>

NoParent == 0

TreeInit ==
    /\ treePc = "start"
    /\ tree = <<>>
    /\ expected = <<>>
    /\ best = [path |-> <<>>, rejected_token |-> 0]

-----------------------------------------------------------------------------
NewTree(token) == << [token |-> token, parent |-> NoParent] >>

AddChild(t, parent, token) == Append(t, [token |-> token, parent |-> parent])

\* get_path: the tokens from the root to a node.
GetPath(t, node) ==
    LET path[i \in DOMAIN t] ==
            IF t[i].parent = NoParent THEN <<t[i].token>>
            ELSE Append(path[t[i].parent], t[i].token)
    IN  path[node]

\* sample_top_k: the first k of the allowed tokens in a stable sort by falling
\* logit, where a token has its place after those that are better.
TopK(scores, allowed, k) ==
    LET better(t) == {u \in allowed : scores[u] > scores[t] \/ (scores[u] = scores[t] /\ u < t)}
    IN  [i \in 1..Min({k, Cardinality(allowed)}) |->
            CHOOSE t \in allowed : Cardinality(better(t)) = i - 1]

\* TreeDraftModel::draft_tree on the best tokens top_k, which has at least one:
\* the first is the root, the others are its children, and a branch of best
\* tokens continues the root.
Branched(top_k, max_tokens) ==
    LET wide == [i \in DOMAIN top_k |->
                    [token |-> top_k[i], parent |-> IF i = 1 THEN NoParent ELSE 1]]
        deep[n \in 1..(max_tokens + 1)] ==
            IF n = 1 THEN [t |-> wide, curr |-> 1]
            ELSE LET d == deep[n - 1]
                     scores == DraftScores(TreeContext \o GetPath(d.t, d.curr))
                     t == AddChild(d.t, d.curr, TopK(scores, TreeTokens, 1)[1])
                 IN  [t |-> t, curr |-> Len(t)]
    IN  deep[IF max_tokens = 0 THEN 1 ELSE max_tokens].t

DraftTree(mask, max_tokens, width) ==
    LET top_k == TopK(DraftScores(TreeContext), mask, width)
    IN  /\ treePc = "start"
        /\ treePc' = IF top_k = <<>> THEN "failed" ELSE "tree"
        /\ tree' = IF top_k = <<>> THEN tree ELSE Branched(top_k, max_tokens)
        /\ UNCHANGED <<expected, best>>

\* The default draft_tree: what draft returned as a chain.
DraftChain(linear) ==
    LET chain == [i \in DOMAIN linear |-> [token |-> linear[i], parent |-> i - 1]]
    IN  /\ treePc = "start"
        /\ treePc' = IF linear = <<>> THEN "failed" ELSE "tree"
        /\ tree' = chain
        /\ UNCHANGED <<expected, best>>

\* A caller's own tree.
BuildTree(parent, token) ==
    /\ \/ treePc = "start" /\ parent = NoParent /\ tree' = NewTree(token)
       \/ treePc = "tree" /\ parent \in DOMAIN tree /\ Len(tree) < MaxNodes
          /\ tree' = AddChild(tree, parent, token)
    /\ treePc' = "tree"
    /\ UNCHANGED <<expected, best>>

-----------------------------------------------------------------------------
\* The branch of first children, as places.
LeftmostBranch(t) ==
    LET children(i) == SelectSeq([j \in DOMAIN t |-> j], LAMBDA j : t[j].parent = i)
        walk[n \in DOMAIN t] ==
            IF n = 1 THEN <<1>>
            ELSE IF Len(walk[n - 1]) < n - 1 \/ children(Last(walk[n - 1])) = <<>>
            THEN walk[n - 1]
            ELSE Append(walk[n - 1], children(Last(walk[n - 1]))[1])
    IN  walk[Len(t)]

\* The default verify_tree: the target's choices along that branch, each before
\* the node's own token, and token 0 for all other nodes.
VerifyLeftmost ==
    LET branch == LeftmostBranch(tree)
        text(n) == TreeContext \o [i \in 1..n |-> tree[branch[i]].token]
    IN  /\ treePc = "tree"
        /\ treePc' = "verified"
        /\ expected' = [i \in DOMAIN tree |->
               IF \E n \in DOMAIN branch : branch[n] = i
               THEN TargetToken(text((CHOOSE n \in DOMAIN branch : branch[n] = i) - 1))
               ELSE 0]
        /\ UNCHANGED <<tree, best>>

\* A target model with a verify_tree of its own may expect anything.
VerifyTree(e) ==
    /\ treePc = "tree" /\ DOMAIN e = DOMAIN tree
    /\ treePc' = "verified"
    /\ expected' = e
    /\ UNCHANGED <<tree, best>>

\* Mutant of Valid: a node of a branch that was rejected higher up counts.
ValidByParent(t, e) ==
    {i \in DOMAIN t : i = 1 \/ t[i].token = e[t[i].parent]}

\* The nodes that agree with what was expected after their parents, up to the
\* root, in one pass: parents come before their children.
Valid(t, e) ==
    LET valid[i \in DOMAIN t] ==
            i = 1 \/ (valid[t[i].parent] /\ t[i].token = e[t[i].parent])
    IN  {i \in DOMAIN t : valid[i]}

\* find_best_path: of the longest paths, the one found last.
FindBestPath ==
    LET nodes == Valid(tree, expected)
        length(i) == Len(GetPath(tree, i))
        last == CHOOSE i \in nodes : \A j \in nodes :
                    length(j) < length(i) \/ (length(j) = length(i) /\ j <= i)
    IN  /\ treePc = "verified"
        /\ treePc' = "chosen"
        /\ best' = [path |-> GetPath(tree, last), rejected_token |-> expected[last]]
        /\ UNCHANGED <<tree, expected>>

TreeNext ==
    \/ \E mask \in SUBSET TreeTokens, n \in DraftLengths, width \in DraftWidths :
          DraftTree(mask, n, width)
    \/ \E n \in DraftLengths : \E linear \in [1..n -> TreeTokens] : DraftChain(linear)
    \/ \E parent \in 0..MaxNodes, token \in TreeTokens : BuildTree(parent, token)
    \/ VerifyLeftmost \/ FindBestPath
    \/ \E e \in [DOMAIN tree -> TreeTokens] : VerifyTree(e)

-----------------------------------------------------------------------------
\* The branches of the tree that agree with the verification, as places: each
\* node is a child of the one before, and has the token expected after it.
AgreedBranches ==
    {b \in UNION {[1..k -> DOMAIN tree] : k \in DOMAIN tree} :
        /\ b[1] = 1
        /\ \A i \in 1..(Len(b) - 1) : /\ tree[b[i + 1]].parent = b[i]
                                      /\ tree[b[i + 1]].token = expected[b[i]]}

\* "Finds the longest branch in the tree that the Editor (Target Model) agreed
\* with" (speculative.rs): whatever tree was drafted or built, in whatever
\* order its branches grew, and whatever the target expects, the path that is
\* returned is an agreed branch, no agreed branch is longer, and the correction
\* is what was expected after its last node.
BestPathMaximal ==
    treePc = "chosen" =>
        \E b \in AgreedBranches :
            /\ best.path = [i \in DOMAIN b |-> tree[b[i]].token]
            /\ best.rejected_token = expected[Last(b)]
            /\ \A c \in AgreedBranches : Len(c) <= Len(b)
=============================================================================
