------------------------------ MODULE HashTree ------------------------------
(***************************************************************************)
(* The dictionary of ILibParsers.c: a list of nodes behind a root that     *)
(* holds nothing, searched from its front.  A hash only spares comparisons,*)
(* so a tree is the sequence of its entries in the order they came.        *)
(***************************************************************************)
EXTENDS Naturals, SequencesExt

EmptyTree == <<>>

HasEntry(tree, key) == \E i \in DOMAIN tree : tree[i].key = key

FindEntry(tree, key) == CHOOSE i \in DOMAIN tree : tree[i].key = key

AddEntry(tree, key, value) ==
  IF HasEntry(tree, key)
  THEN [tree EXCEPT ![FindEntry(tree, key)].value = value]
  ELSE Append(tree, [key |-> key, value |-> value])

(* The entry that is found is unlinked.                                    *)
DeleteEntry(tree, key) ==
  IF HasEntry(tree, key) THEN RemoveAt(tree, FindEntry(tree, key)) ELSE tree
=============================================================================
