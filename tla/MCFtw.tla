-------------------------------- MODULE MCFtw --------------------------------
(* Values of the constants of Ftw. *)
EXTENDS Ftw

CONSTANTS
  boot,     \* the boot block
  vars1,    \* a block of its own, the variable store
  data,     \* the data in front of the work space, in the working block
  v1, v2    \* contents
=============================================================================
