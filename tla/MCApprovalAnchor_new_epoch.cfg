SPECIFICATION AnchorSpec
CONSTANTS
  w1 = w1
  w2 = w2
  w3 = w3
  w4 = w4
  w5 = w5
  Writer = {w1, w2, w3, w4, w5}
  Work <- MCWork
  NoInode = NoInode
CHECK_DEADLOCK FALSE
PROPERTY
  OlderReceiptRejected
