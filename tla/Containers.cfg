CONSTANTS
  Node <- MCNode
  NULL = NULL
  Kinds = {"bst", "rbt"}
  Keyings <- MCKeyings
  MaxInside <- MCMaxInside
  HashNode <- MCHashNode
  HashKinds = {"list", "rbtree"}
  HashKey <- MCHashKey
  ht_len = 4
  BucketSizes = {2, 3, 4}
  n1 = n1  n2 = n2  n3 = n3  n4 = n4  n5 = n5
SPECIFICATION BothSpec
INVARIANTS Linked Sorted RedBlack Navigates EachOnce WellFiled CursorInItsSlot
PROPERTIES Returns CursorWalksRow RemoveSelfGoesOn BucketIsTheLimit
CONSTRAINT FewTrees
